---- MODULE Spec2Model ----
(***************************************************************************)
(* Model of the research orchestration engine of deep-research-mcp:        *)
(*   - AdaptiveSearchClient + PerformanceMetrics (adaptive dispatcher),    *)
(*   - DefaultResearchService (recursion controller),                      *)
(*   - evaluateSourceReliability / BatchedModelProvider (token accounting).*)
(* Times are milliseconds, as returned by Date.now().                      *)
(***************************************************************************)
EXTENDS Integers, Sequences, FiniteSets, TLC

(* ------------------------------ bounds --------------------------------- *)
NumCallers == 2
MaxTicks == 2
MaxSamples == 7
MaxDepth == 2
MaxBreadth == 1
MaxPlanned == 2
NumTasks == 2
MaxCalls == 3
NumClients == 2
MaxTierTicks == 1
MaxTierOps == 3
MaxConnects == 8
MaxToolCalls == 2
NumSearchers == 3
MaxPoolSize == 2
MaxPoolCalls == 3
MaxRecords == 3

(* ------------------- AdaptiveSearchClient constants -------------------- *)
initialConcurrency == 2
adjustmentInterval == 10000
minConcurrency == 1
maxConcurrency == 8
minSamples == 5
lowLatency == 5000
highLatency == 10000
maxDurations == 1000

TickMs == adjustmentInterval

(* ------------------- DefaultResearchService constants ------------------ *)
\* config.maxConcurrency of the service (the value of the integration test)
serviceConcurrency == 2
\* the range the deep-research tool accepts for depth and breadth
paramMin == 1
paramMax == 5
\* the fallback of `learningReliabilities[i] || 0.5`, in tenths
defaultReliability == 5

NoBudget == -1
URLs == {"u1", "u2", "u3"}
\* the item lists a successful search can return (each item is its URL)
SearchData == {<<"u1", "u2">>, <<"u2", "u3">>}
\* what the evaluator can reply for the sources of one level; score in tenths
Accept(score) == [use |-> TRUE, score |-> score]
Reject(score) == [use |-> FALSE, score |-> score]
EvaluatorReplies ==
  { [u \in URLs |-> CASE u = "u1" -> Accept(8) [] u = "u2" -> Accept(0) [] OTHER -> Reject(3)],
    [u \in URLs |-> CASE u = "u1" -> Reject(2) [] u = "u2" -> Accept(9) [] OTHER -> Accept(6)] }
\* usage.totalTokens of one model call (0 stands for a reply without usage)
Usages == {0, 60}
TokenBudgets == {NoBudget, 60, 100}

(* -------------------- BatchedModelProvider constants ------------------- *)
cacheTtl == 300000
cleanupThreshold == 1000

Tasks == 1..NumTasks
\* a request is `system|prompt|schema`: head is its first 48 bytes, tail the rest
Requests == {[head |-> "a", tail |-> ""], [head |-> "a", tail |-> "x"],
             [head |-> "b", tail |-> ""]}
CacheKeys == {r.head : r \in Requests}
\* the objects the model can generate
Replies == {"r1", "r2"}
NoEntry == [result |-> "", timestamp |-> -1, ttl |-> 0]
NoServed == [result |-> "", timestamp |-> -1, ttl |-> 0, at |-> -1]
Callers == 1..NumCallers
Outcomes == {"ok", "fail", "throw"}

VARIABLES
  now,             \* Date.now()
  concurrency,     \* AdaptiveSearchClient.concurrency
  limit,           \* AdaptiveSearchClient.limit: index of the current limiter
  limiters,        \* every pLimit instance created so far
  lastAdjustment,  \* AdaptiveSearchClient.lastAdjustment
  metrics,         \* PerformanceMetrics entry of operation 'search'
  callers,         \* the callers of AdaptiveSearchClient.search
  adjustCounts,    \* metrics.count at each change of the concurrency
  thrownToCaller,  \* some search() promise was rejected
  pc,              \* where conductResearch / executeResearchDepth stands
  params,          \* ResearchParams of the session
  remainingDepth,  \* argument of the running executeResearchDepth
  context,         \* ResearchContext passed to the running level
  contexts,        \* every ResearchContext object built in the session, oldest first
  slots,           \* the searches of executeSearches, one per planned query
  levelMeta,       \* processedResults.sourceMetadata of the merged level
  outcome,         \* what conductResearch returned: "none", "ok" or "err"
  result,          \* the ResearchResult returned inside Ok
  totalTokens,     \* stats.totalTokens of the model provider
  levelsRun,       \* number of levels entered with remainingDepth > 0
  mergesDone,      \* number of levels whose merge has completed
  plannerFailed,   \* generateQueries failed in this session
  partialFailure,  \* some level had both a failed and a successful search
  exceededAt,      \* the level during which the token budget was reached, 0 if none
  budget,          \* BudgetState handed to evaluateSourceReliability
  charged,         \* sum of the usage handed to recordUsage
  tasks,           \* the callers of the evaluator and of the model provider
  calls,           \* number of calls the tasks have made
  cache,           \* BatchedModelProvider.cache
  totalCalls,      \* stats.totalCalls
  cacheHits,       \* stats.cacheHits
  generated,       \* sum of the usage.totalTokens of the model's replies
  overlapped,      \* some charge was made while another call was in flight
  answers,         \* what generateObject has returned: request, object, from cache or not
  modelCalls,      \* per request, the number of calls made to the model
  lastServed,      \* the cache entry last served by getFromCache, and when
  clock,           \* the time of the cache tiers, in seconds
  hasL3,           \* MultiLevelCache was constructed with an l3
  l1,              \* the store of MultiLevelCache.l1 (memory)
  l2,              \* the store of MultiLevelCache.l2 (Redis)
  l3,              \* the store of MultiLevelCache.l3 (database)
  clients,         \* the callers of MultiLevelCache.get and MultiLevelCache.set
  tierOps,         \* number of calls the clients have made
  lastReturn,      \* the call of MultiLevelCache that returned last, and with what
  lastSet,         \* the set of MultiLevelCache that returned last: value, ttl, time
  deleteDone,      \* a delete of MultiLevelCache has returned
  afterDelete,     \* the callers whose running get or exists began after that return
  evals,           \* the callers of DefaultSourceEvaluationService.evaluateReliability
  evalCalls,       \* number of calls of evaluateReliability made
  evalResult,      \* what evaluateReliability returned last
  localClient,     \* FirecrawlClient.localClient is set
  cloudClient,     \* FirecrawlClient.cloudClient is set
  useLocal,        \* FirecrawlClient.useLocal
  searches,        \* the callers of FirecrawlClient.search
  fcCalls,         \* number of calls of FirecrawlClient.search made
  fcLast,          \* how the last call of FirecrawlClient.search ended
  reconnectAttempts, \* main: reconnectAttempts
  server,          \* the MCP server process: connecting, connected, waiting or exited
  retryDelay,      \* the delay of the pending setTimeout(connectWithRetry, ...), ms
  healthInterval,  \* the health check interval is running
  connects,        \* number of calls of connectWithRetry
  exitCode,        \* the argument of process.exit, -1 while running
  toolRun,         \* the running handler of deep-research or research-sources
  toolReply,       \* what the handler returned to the MCP client
  toolCalls,       \* number of tool calls made
  poolSize,        \* PooledSearchClient.poolSize
  available,       \* PooledSearchClient.available
  waiting,         \* PooledSearchClient.waiting: the searches whose callbacks are queued
  activeConnections, \* PooledSearchClient.activeConnections
  searchers,       \* the callers of PooledSearchClient.search
  poolCalls,       \* number of calls of PooledSearchClient.search made
  opMetric,        \* PerformanceMetrics.metrics.get(operation) of one operation
  successes,       \* number of recordSuccess calls made for the operation
  failures,        \* number of recordError calls made for the operation
  recordCalls      \* number of record calls made since the initial state

adaptiveVars == <<now, concurrency, limit, limiters, lastAdjustment, metrics,
                  callers, adjustCounts, thrownToCaller>>

researchVars == <<pc, params, remainingDepth, context, contexts, slots, levelMeta, outcome,
                  result, levelsRun, mergesDone, plannerFailed,
                  partialFailure, exceededAt>>

budgetVars == <<budget, charged, tasks, calls, cache, totalCalls, cacheHits,
                generated, overlapped, answers, modelCalls, lastServed>>

tierVars == <<clock, hasL3, l1, l2, l3, clients, tierOps, lastReturn>>

\* the history of MultiLevelCache the properties refer to
tierObs == <<lastSet, deleteDone, afterDelete>>

evalVars == <<evals, evalCalls, evalResult>>

coreVars == <<adaptiveVars, researchVars, totalTokens, budgetVars>>

fcVars == <<localClient, cloudClient, useLocal, searches, fcCalls, fcLast>>

mcpVars == <<reconnectAttempts, server, retryDelay, healthInterval, connects, exitCode>>

toolVars == <<toolRun, toolReply, toolCalls>>

poolVars == <<poolSize, available, waiting, activeConnections, searchers, poolCalls>>

perfVars == <<opMetric, successes, failures, recordCalls>>

\* everything outside the core services
extVars == <<tierVars, tierObs, evalVars, fcVars, mcpVars, toolVars, poolVars, perfVars>>

\* everything outside MultiLevelCache
nonTierVars == <<coreVars, evalVars, fcVars, mcpVars, toolVars, poolVars, perfVars>>

\* what the steps of MultiLevelCache leave alone
otherVars == <<nonTierVars, tierObs>>

\* everything outside DefaultSourceEvaluationService
nonEvalVars == <<coreVars, tierVars, tierObs, fcVars, mcpVars, toolVars, poolVars, perfVars>>

\* everything outside FirecrawlClient
nonFcVars == <<coreVars, tierVars, tierObs, evalVars, mcpVars, toolVars, poolVars, perfVars>>

\* everything outside the MCP server's main
nonMcpVars == <<coreVars, tierVars, tierObs, evalVars, fcVars, toolVars, poolVars, perfVars>>

\* everything outside the handlers of the research tools
nonToolVars == <<coreVars, tierVars, tierObs, evalVars, fcVars, mcpVars, poolVars, perfVars>>

\* everything outside PooledSearchClient
nonPoolVars == <<coreVars, tierVars, tierObs, evalVars, fcVars, mcpVars, toolVars, perfVars>>

\* everything outside the PerformanceMetrics of that operation
nonPerfVars == <<coreVars, tierVars, tierObs, evalVars, fcVars, mcpVars, toolVars, poolVars>>

vars == <<coreVars, extVars>>

(* ------------------------------ helpers -------------------------------- *)
Max(a, b) == IF a >= b THEN a ELSE b
Min(a, b) == IF a <= b THEN a ELSE b

RECURSIVE Insert(_, _)
Insert(x, s) ==
  IF s = <<>> THEN <<x>>
  ELSE IF x <= Head(s) THEN <<x>> \o s
  ELSE <<Head(s)>> \o Insert(x, Tail(s))

RECURSIVE SortAsc(_)
SortAsc(s) == IF s = <<>> THEN <<>> ELSE Insert(Head(s), SortAsc(Tail(s)))

SliceLast(s, n) ==
  IF Len(s) <= n THEN s ELSE SubSeq(s, Len(s) - n + 1, Len(s))

(* --------------------------- PerformanceMetrics ------------------------ *)
EmptyMetric == [count |-> 0, totalDuration |-> 0, errors |-> 0, durations |-> <<>>]

recordSuccess(m, duration) ==
  [m EXCEPT !.count = @ + 1,
            !.totalDuration = @ + duration,
            !.durations = SliceLast(Append(@, duration), maxDurations)]

\* recordError called without its optional duration
NoDuration == -1

recordError(m, duration) ==
  IF duration = NoDuration
  THEN [m EXCEPT !.count = @ + 1, !.errors = @ + 1]
  ELSE [m EXCEPT !.count = @ + 1,
                 !.errors = @ + 1,
                 !.totalDuration = @ + duration,
                 !.durations = Append(@, duration)]

\* percentile of an ascending array; p in hundredths
percentile(sortedArray, p) ==
  IF Len(sortedArray) = 0 THEN 0
  ELSE LET index == ((Len(sortedArray) * p + 99) \div 100) - 1
       IN  sortedArray[Max(0, index) + 1]

p95Duration(m) == percentile(SortAsc(m.durations), 95)

\* errorRate = errors / count, compared against 0.2 and 0.05
HighErrorRate(m) == 5 * m.errors > m.count
LowErrorRate(m) == 20 * m.errors < m.count

(* ------------------------------ pLimit --------------------------------- *)
pLimit(c) == [conc |-> c, active |-> 0, queue |-> <<>>]

(* --------------------- AdaptiveSearchClient.adjust --------------------- *)
\* the rule without its last branch (slow responses)
AdjustedConcurrency_noLatencyBranch(c, m) ==
  IF HighErrorRate(m) THEN Max(minConcurrency, c - 1)
  ELSE IF LowErrorRate(m) /\ p95Duration(m) < lowLatency THEN Min(maxConcurrency, c + 1)
  ELSE c

\* the rule without its Math.max / Math.min clamps
AdjustedConcurrency_unclamped(c, m) ==
  IF HighErrorRate(m) THEN c - 1
  ELSE IF LowErrorRate(m) /\ p95Duration(m) < lowLatency THEN c + 1
  ELSE IF p95Duration(m) > highLatency THEN c - 1
  ELSE c

\* the concurrency chosen by the rule of adjustConcurrencyIfNeeded
AdjustedConcurrency(c, m) ==
  IF HighErrorRate(m) THEN Max(minConcurrency, c - 1)
  ELSE IF LowErrorRate(m) /\ p95Duration(m) < lowLatency THEN Min(maxConcurrency, c + 1)
  ELSE IF p95Duration(m) > highLatency THEN Max(minConcurrency, c - 1)
  ELSE c

\* the check of the adjustment interval left out
AdjustmentEvaluated_noInterval(t, last, m) ==
  ~(m.count = 0 \/ m.count < minSamples)

\* whether adjustConcurrencyIfNeeded gets past its two early returns
AdjustmentEvaluated(t, last, m) ==
  /\ ~(t - last < adjustmentInterval)
  /\ ~(m.count = 0 \/ m.count < minSamples)

adjustConcurrencyIfNeeded(t, c, last, m) ==
  IF AdjustmentEvaluated(t, last, m) THEN AdjustedConcurrency(c, m) ELSE c

(* ------------------------------- Init ---------------------------------- *)
\* the dispatcher as constructed
ColdStart ==
  /\ concurrency = initialConcurrency
  /\ limiters = <<pLimit(initialConcurrency)>>
  /\ metrics = EmptyMetric

\* the dispatcher after a healthy run has raised the ceiling to its maximum:
\* minSamples fast successes on record, no search in flight, and the clock
\* read from the time of the last adjustment
WarmStart ==
  /\ concurrency = maxConcurrency
  /\ limiters = <<pLimit(maxConcurrency)>>
  /\ metrics = [count |-> minSamples, totalDuration |-> 0, errors |-> 0,
                durations |-> [i \in 1..minSamples |-> 0]]

(* --------------------------- MCP server main --------------------------- *)
maxReconnectAttempts == 5
\* the factor of `setTimeout(connectWithRetry, 2000 * reconnectAttempts)`
retryBackoff == 2000

\* `let reconnectAttempts = 0` and the first `await connectWithRetry()`
ServerStart ==
  /\ reconnectAttempts = 0
  /\ server = "connecting"
  /\ retryDelay = 0
  /\ healthInterval = FALSE
  /\ connects = 1
  /\ exitCode = -1

\* main has not run
IdleServer ==
  /\ reconnectAttempts = 0
  /\ server = "idle"
  /\ retryDelay = 0
  /\ healthInterval = FALSE
  /\ connects = 0
  /\ exitCode = -1

(* ----------------------- FirecrawlClient constants ---------------------- *)
IdleSearch == [pc |-> "idle", tried |-> <<>>]
NoOutcome == [how |-> "none", tried |-> <<>>]
\* the two messages search throws itself
NoInstance == "No Firecrawl instance available"
CreditsExhausted == "Firecrawl cloud credits exhausted"
\* the errors cloudClient.search rejects with: a message about credits or
\* quota, or any other
CloudErrors == {"credits", "network"}

FirecrawlStart(local, cloud) ==
  /\ localClient = local
  /\ cloudClient = cloud
  /\ useLocal = TRUE
  /\ searches = [c \in Callers |-> IdleSearch]
  /\ fcCalls = 0
  /\ fcLast = NoOutcome

IdleFirecrawl == FirecrawlStart(FALSE, FALSE)

InitFirecrawl == \E local, cloud \in BOOLEAN : FirecrawlStart(local, cloud)

(* -------------- DefaultSourceEvaluationService constants --------------- *)
\* item.url: missing, well formed, and one `new URL` rejects
ItemUrls == {"", "https://a.org/p", "not a url"}
\* what `new URL(url)` does when it cannot parse
Throws == "TypeError"
\* new URL(url).hostname
Hostname(url) == IF url = "https://a.org/p" THEN "a.org" ELSE Throws

DomainOf_noCatch(url) == IF url # "" THEN Hostname(url) ELSE ""

\* `try { domain = url ? new URL(url).hostname : '' } catch { domain = '' }`
DomainOf(url) ==
  IF url # "" /\ Hostname(url) # Throws THEN Hostname(url) ELSE ""

\* res.object of the model: score in tenths (the schema is z.number()), use
ModelObjects == {[score |-> sc, use |-> u] : sc \in {-3, 7, 14}, u \in BOOLEAN}
\* the ways generateObject fails
ModelFailures == {"timeout", "malformed reply", "provider error"}

IdleEvalTask == [st |-> "idle", url |-> "", domain |-> ""]
NoEvalResult == [kind |-> "none", score |-> 0, use |-> FALSE, domain |-> "",
                 url |-> "", error |-> "", cause |-> ""]
\* Ok({score, reasoning, use, preferenceReason, domain})
OkAssessment(url, obj, domain) ==
  [kind |-> "Ok", score |-> obj.score, use |-> obj.use, domain |-> domain,
   url |-> url, error |-> "", cause |-> ""]
\* Err(new AIModelError('Failed to evaluate source reliability', error))
ErrAssessment(url, cause) ==
  [kind |-> "Err", score |-> 0, use |-> FALSE, domain |-> "",
   url |-> url, error |-> "AIModelError", cause |-> cause]

IdleEval ==
  /\ evals = [t \in Tasks |-> IdleEvalTask]
  /\ evalCalls = 0
  /\ evalResult = NoEvalResult

(* ======================================================================= *)
(*                            MultiLevelCache                              *)
(* Times are seconds, the unit of ttlSeconds.                              *)
(* ======================================================================= *)
\* the TTL get gives the l1 entry it writes after an l2 or l3 hit
nearFillTtl == 300
\* the TTL get gives the l2 entry it writes after an l3 hit
sharedFillTtl == 3600
\* the most set lets an l1 entry live
nearTtlCap == 300

TierTickSeconds == nearTtlCap

Clients == 1..NumClients
TierKeys == {"k1"}
\* the (value, ttlSeconds) passed to set: one TTL below and one above the l1 cap
SetInputs == {[value |-> "v1", ttl |-> 120], [value |-> "v2", ttl |-> 600]}
\* what get resolves to when no tier has the key
Null == "null"
NoTierEntry == [value |-> Null, ttl |-> 0, at |-> 0]
EmptyStore == [k \in TierKeys |-> NoTierEntry]
IdleClient == [pc |-> "idle", op |-> "none", key |-> "k1", value |-> Null,
               ttl |-> 0, pend |-> {}, reads |-> <<>>]
NoReturn == [op |-> "none", key |-> "k1", ret |-> Null, reads |-> <<>>]
\* what a call of client record r returns to its caller
Returned(r, v) == [op |-> r.op, key |-> r.key, ret |-> v, reads |-> r.reads]

\* CacheService.set(key, value, ttlSeconds), as RedisCache's setex keeps it
TierEntry(v, ttl, at) == [value |-> v, ttl |-> ttl, at |-> at]

\* CacheService.get finds the entry: its ttlSeconds have not elapsed
Live(e, t) == e # NoTierEntry /\ t < e.at + e.ttl

\* a tier drops the entries whose ttlSeconds have elapsed
Purge(store, t) == [k \in TierKeys |-> IF Live(store[k], t) THEN store[k] ELSE NoTierEntry]

\* the tiers MultiLevelCache was constructed with
ConfiguredTiers == IF hasL3 THEN {1, 2, 3} ELSE {1, 2}

NearTtl_uncapped(ttl) == ttl

\* the ttlSeconds set passes to l1.set
NearTtl(ttl) == Min(ttl, nearTtlCap)

\* the ttlSeconds set passes to the set of tier i
SetTtl(i, ttl) ==
  CASE i = 1 -> NearTtl(ttl)
    [] i = 2 -> ttl
    [] OTHER -> ttl * 2

TierStart(withL3) ==
  /\ clock = 0
  /\ hasL3 = withL3
  /\ l1 = EmptyStore
  /\ l2 = EmptyStore
  /\ l3 = EmptyStore
  /\ clients = [c \in Clients |-> IdleClient]
  /\ tierOps = 0
  /\ lastReturn = NoReturn
  /\ lastSet = NoTierEntry
  /\ deleteDone = FALSE
  /\ afterDelete = {}

IdleTier == TierStart(FALSE)

InitTier == \E withL3 \in BOOLEAN : TierStart(withL3)

InitAdaptive ==
  /\ now = 0
  /\ ColdStart \/ WarmStart
  /\ limit = 1
  /\ lastAdjustment = 0
  /\ callers = [c \in Callers |-> [st |-> "idle", gen |-> 0, start |-> 0]]
  /\ adjustCounts = <<>>
  /\ thrownToCaller = FALSE

\* the dispatcher left alone (the specifications of the other components)
IdleAdaptive ==
  /\ now = 0
  /\ ColdStart
  /\ limit = 1
  /\ lastAdjustment = 0
  /\ callers = [c \in Callers |-> [st |-> "idle", gen |-> 0, start |-> 0]]
  /\ adjustCounts = <<>>
  /\ thrownToCaller = FALSE

EmptyContext == [learnings |-> <<>>, learningReliabilities |-> <<>>, visitedUrls |-> <<>>]
NoSlot == [st |-> "none", data |-> <<>>, lvl |-> 0]
NoResult == [learnings |-> <<>>, learningReliabilities |-> <<>>, visitedUrls |-> <<>>,
             sourceMetadata |-> <<>>, weightedLearnings |-> <<>>]

ResearchStart(p) ==
  /\ pc = "idle"
  /\ params = p
  /\ remainingDepth = 0
  /\ context = EmptyContext
  /\ contexts = <<>>
  /\ slots = [i \in 1..MaxPlanned |-> NoSlot]
  /\ levelMeta = <<>>
  /\ outcome = "none"
  /\ result = NoResult
  /\ totalTokens = 0
  /\ levelsRun = 0
  /\ mergesDone = 0
  /\ plannerFailed = FALSE
  /\ partialFailure = FALSE
  /\ exceededAt = 0

IdleResearch == ResearchStart([depth |-> 1, breadth |-> 1, tokenBudget |-> NoBudget])

IdleTask == [st |-> "idle", req |-> [head |-> "", tail |-> ""]]

BudgetStart(cap) ==
  /\ budget = [total |-> 0, cap |-> cap, exceeded |-> FALSE]
  /\ charged = 0
  /\ tasks = [t \in Tasks |-> IdleTask]
  /\ calls = 0
  /\ cache = [k \in CacheKeys |-> NoEntry]
  /\ totalCalls = 0
  /\ cacheHits = 0
  /\ generated = 0
  /\ overlapped = FALSE
  /\ answers = {}
  /\ modelCalls = [r \in Requests |-> 0]
  /\ lastServed = NoServed

IdleBudget == BudgetStart(NoBudget)

InitBudget == \E cap \in TokenBudgets : BudgetStart(cap)

(* ----------------------- PooledSearchClient constants ------------------- *)
Searchers == 1..NumSearchers

NoClient == 0
\* via: whether acquireClient popped the client or a release handed it over;
\* last: how the caller's previous search ended
IdleSearcher == [pc |-> "idle", client |-> NoClient, via |-> "none", last |-> "none"]

\* the constructor: initializePool pushes poolSize clients to pool and available
PoolStart(size) ==
  /\ poolSize = size
  /\ available = [i \in 1..size |-> i]
  /\ waiting = <<>>
  /\ activeConnections = 0
  /\ searchers = [s \in Searchers |-> IdleSearcher]
  /\ poolCalls = 0

\* no PooledSearchClient has been constructed
IdlePool == PoolStart(0)

InitPool == \E size \in 1..MaxPoolSize : PoolStart(size)

(* ----------------------- PerformanceMetrics constants ------------------- *)
SampleDurations == {1, 2}

\* the metric of an operation after n calls recordSuccess(operation, 1),
\* n <= maxDurations
AfterSuccesses(n) ==
  [count |-> n, totalDuration |-> n, errors |-> 0, durations |-> [i \in 1..n |-> 1]]

MetricStart(n) ==
  /\ opMetric = AfterSuccesses(n)
  /\ successes = n
  /\ failures = 0
  /\ recordCalls = 0

\* getOrCreateMetric has just created the operation's metric
IdlePerf == MetricStart(0)

\* a new metric, or one that already holds maxDurations - 1 samples
InitPerf == \E n \in {0, maxDurations - 1} : MetricStart(n)

(* ------------------------- research tools constants --------------------- *)
ToolNames == {"deep-research", "research-sources"}

\* a JavaScript number that is a fraction of integers, in lowest terms;
\* den = 0 is what a division by zero gives: NaN for 0/0, Infinity otherwise
Zero == [num |-> 0, den |-> 1]
NaN == [num |-> 0, den |-> 0]

NoToolRun == [pc |-> "idle", name |-> "deep-research", result |-> NoResult]
NoToolReply == [kind |-> "none", name |-> "deep-research", averageReliability |-> Zero,
                totalSources |-> 0, shownAverage |-> Zero]

\* no tool has been called
IdleTools ==
  /\ toolRun = NoToolRun
  /\ toolReply = NoToolReply
  /\ toolCalls = 0

InitResearch ==
  \E d \in 0..MaxDepth, b \in 0..MaxBreadth, t \in TokenBudgets :
    ResearchStart([depth |-> d, breadth |-> b, tokenBudget |-> t])

(* ------------------------------ actions -------------------------------- *)
Tick ==
  /\ now < MaxTicks * TickMs
  /\ now' = now + TickMs
  /\ UNCHANGED <<concurrency, limit, limiters, lastAdjustment, metrics, callers,
                 adjustCounts, thrownToCaller>>
  /\ UNCHANGED <<extVars, researchVars, totalTokens, budgetVars>>

\* search(): this.limit(fn) - runs fn at once when the limiter has a free
\* slot, otherwise queues it on the limiter that is current at the call
SearchCall(c) ==
  /\ callers[c].st = "idle"
  \* callers are interchangeable: the idle caller of lowest index calls
  /\ \A d \in Callers : callers[d].st = "idle" => c <= d
  /\ metrics.count + Cardinality({d \in Callers : callers[d].st # "idle"}) < MaxSamples
  /\ LET l == limiters[limit] IN
       IF l.active < l.conc
       THEN /\ limiters' = [limiters EXCEPT ![limit].active = @ + 1]
            /\ callers' = [callers EXCEPT ![c] =
                 [st |-> "running", gen |-> limit, start |-> now]]
       ELSE /\ limiters' = [limiters EXCEPT ![limit].queue = Append(@, c)]
            /\ callers' = [callers EXCEPT ![c] =
                 [st |-> "queued", gen |-> limit, start |-> 0]]
  /\ UNCHANGED <<now, concurrency, limit, lastAdjustment, metrics, adjustCounts,
                 thrownToCaller>>
  /\ UNCHANGED <<extVars, researchVars, totalTokens, budgetVars>>

\* baseClient.search settles for caller c; the measurement is recorded, the
\* adjustment is evaluated, and the caller's limiter starts its next queued call
SearchReturn(c, how) ==
  /\ callers[c].st = "running"
  /\ LET duration == now - callers[c].start
         m == IF how = "ok" THEN recordSuccess(metrics, duration)
                                ELSE recordError(metrics, duration)
         newC == adjustConcurrencyIfNeeded(now, concurrency, lastAdjustment, m)
         changed == newC # concurrency
         g == callers[c].gen
         ls1 == IF changed THEN Append(limiters, pLimit(newC)) ELSE limiters
         q == ls1[g].queue
     IN
       /\ metrics' = m
       /\ concurrency' = newC
       /\ limit' = IF changed THEN Len(ls1) ELSE limit
       /\ lastAdjustment' = IF changed THEN now ELSE lastAdjustment
       /\ IF q = <<>>
          THEN /\ limiters' = [ls1 EXCEPT ![g].active = @ - 1]
               /\ callers' = [callers EXCEPT ![c] =
                    [st |-> "idle", gen |-> 0, start |-> 0]]
          ELSE /\ limiters' = [ls1 EXCEPT ![g].queue = Tail(q)]
               /\ callers' = [callers EXCEPT
                    ![c] = [st |-> "idle", gen |-> 0, start |-> 0],
                    ![Head(q)] = [st |-> "running", gen |-> g, start |-> now]]
  /\ UNCHANGED now
  /\ UNCHANGED <<extVars, researchVars, totalTokens, budgetVars>>

\* SearchReturn with nothing recorded about it
SearchReturnPlain(c, how) ==
  /\ SearchReturn(c, how)
  /\ UNCHANGED <<adjustCounts, thrownToCaller>>

\* SearchReturn with its record: the sample count at a change of the ceiling,
\* and whether the promise of search() was rejected (the `throw error` of the
\* catch block) rather than resolved
SearchReturnObserved(c, how) ==
  /\ SearchReturn(c, how)
  /\ adjustCounts' = IF concurrency' # concurrency
                     THEN Append(adjustCounts, metrics'.count) ELSE adjustCounts
  /\ thrownToCaller' = (thrownToCaller \/ how = "throw")

NextAdaptive ==
  \/ Tick
  \/ \E c \in Callers : SearchCall(c)
  \/ \E c \in Callers : \E o \in Outcomes : SearchReturnPlain(c, o)

NextDispatch ==
  \/ Tick
  \/ \E c \in Callers : SearchCall(c)
  \/ \E c \in Callers : \E o \in Outcomes : SearchReturnObserved(c, o)

InitAdaptiveSpec == InitAdaptive /\ IdleResearch /\ IdleBudget /\ IdleTier /\ IdleEval /\ IdleFirecrawl /\ IdleServer /\ IdleTools /\ IdlePool /\ IdlePerf

SpecAdaptive == InitAdaptiveSpec /\ [][NextAdaptive]_vars

InitDispatchSpec == InitAdaptive /\ IdleResearch /\ IdleBudget /\ IdleTier /\ IdleEval /\ IdleFirecrawl /\ IdleServer /\ IdleTools /\ IdlePool /\ IdlePerf

SpecDispatch == InitDispatchSpec /\ [][NextDispatch]_vars


(* ----------------------- DefaultResearchService ------------------------ *)
RECURSIVE Flatten(_)
Flatten(ss) == IF ss = <<>> THEN <<>> ELSE Head(ss) \o Flatten(Tail(ss))

InSeq(x, s) == \E i \in 1..Len(s) : s[i] = x

RECURSIVE Distinct(_)
\* the elements of s in order of first appearance
Distinct(s) ==
  IF s = <<>> THEN <<>>
  ELSE LET front == Distinct(SubSeq(s, 1, Len(s) - 1))
           last == s[Len(s)]
       IN  IF InSeq(last, front) THEN front ELSE Append(front, last)

RECURSIVE MapSeq(_, _)
MapSeq(s, f) == IF s = <<>> THEN <<>> ELSE <<f[Head(s)]>> \o MapSeq(Tail(s), f)

\* `=` in place of `+=`
updateStats_overwrite(total, usage) == IF usage # 0 THEN usage ELSE total

\* BatchedModelProvider.updateStats: `if (usage?.totalTokens) total += ...`
updateStats(total, usage) == IF usage # 0 THEN total + usage ELSE total

\* weightedLearnings: learnings.map((l, i) => ({content, reliability: r[i] || 0.5}))
weightedLearnings(ctx) ==
  [i \in 1..Len(ctx.learnings) |->
     [content |-> ctx.learnings[i],
      reliability |-> IF i > Len(ctx.learningReliabilities)
                         \/ ctx.learningReliabilities[i] = 0
                      THEN defaultReliability
                      ELSE ctx.learningReliabilities[i]]]

\* the ResearchResult built at both return statements of executeResearchDepth
MakeResult(ctx, meta) ==
  [learnings |-> ctx.learnings,
   learningReliabilities |-> ctx.learningReliabilities,
   visitedUrls |-> ctx.visitedUrls,
   sourceMetadata |-> meta,
   weightedLearnings |-> weightedLearnings(ctx)]

\* executeSearches: what the settled search of a slot contributes
SlotData(sl) == IF sl.st = "ok" THEN sl.data ELSE <<>>

\* processSearchResults(searchResults, params, correlationId): the sources of
\* the level, each URL once, evaluated with the verdicts v
processSearchResults(searchResults, v) ==
  LET considered == Distinct(Flatten(searchResults))
      used == SelectSeq(considered, LAMBDA u : v[u].use)
  IN  [newLearnings |-> used,
       newReliabilities |-> MapSeq(used, [u \in URLs |-> v[u].score]),
       newUrls |-> considered,
       sourceMetadata |-> considered]

MergeContext_acceptedUrlsOnly(ctx, processed) ==
  [learnings |-> ctx.learnings \o processed.newLearnings,
   learningReliabilities |-> ctx.learningReliabilities \o processed.newReliabilities,
   visitedUrls |-> ctx.visitedUrls \o processed.newLearnings]

\* the updatedContext literal of executeResearchDepth
MergeContext(ctx, processed) ==
  [learnings |-> ctx.learnings \o processed.newLearnings,
   learningReliabilities |-> ctx.learningReliabilities \o processed.newReliabilities,
   visitedUrls |-> ctx.visitedUrls \o processed.newUrls]

ContextsAfterMerge_inPlace(objects, processed) ==
  LET merged == MergeContext(objects[Len(objects)], processed)
  IN  Append([objects EXCEPT ![Len(objects)] = merged], merged)

\* the context objects after `const updatedContext = {...}`: the spreads copy
\* the arrays of the context received, which is the last object built
ContextsAfterMerge(objects, processed) ==
  Append(objects, MergeContext(objects[Len(objects)], processed))

NextDepth_same(rd) == rd

\* the depth handed to the recursive call: `remainingDepth - 1`
NextDepth(rd) == rd - 1

\* the recursion test `remainingDepth > 1` of executeResearchDepth
Recurses(rd) == rd > 1

InFlightSlots == {i \in 1..MaxPlanned : slots[i].st \in {"queued", "running"}}
Planned == {i \in 1..MaxPlanned : slots[i].st # "none" /\ slots[i].lvl = levelsRun}

\* Promise.race in place of Promise.all: resolved once one search is
AllSettled_any(sl) == \E i \in 1..MaxPlanned : sl[i].st \in {"ok", "err"}

\* Promise.all over the searches of the level: resolved once every one of them is
AllSettled(sl) == \A i \in 1..MaxPlanned : sl[i].st \in {"none", "ok", "err"}

\* conductResearch up to its first suspension
ConductResearch ==
  /\ pc = "idle"
  /\ IF params.depth <= 0
     THEN /\ pc' = "done"
          /\ outcome' = "ok"
          /\ result' = MakeResult(context, <<>>)
          /\ UNCHANGED <<remainingDepth, levelsRun>>
     ELSE /\ pc' = "planning"
          /\ remainingDepth' = params.depth
          /\ levelsRun' = 1
          /\ UNCHANGED <<outcome, result>>
  /\ contexts' = <<context>>
  /\ UNCHANGED <<params, context, slots, levelMeta, totalTokens, mergesDone,
                 plannerFailed, partialFailure>>
  /\ UNCHANGED <<extVars, adaptiveVars, budgetVars, exceededAt>>

\* generateQueries returns Ok with n queries; executeSearches hands every one
\* of them to its pLimit(config.maxConcurrency)
PlanReturn(n, usage) ==
  /\ pc = "planning"
  /\ totalTokens' = updateStats(totalTokens, usage)
  /\ slots' = [i \in 1..MaxPlanned |->
                 IF i > n THEN NoSlot
                 ELSE [st |-> IF i <= serviceConcurrency THEN "running" ELSE "queued",
                       data |-> <<>>, lvl |-> levelsRun]]
  /\ pc' = IF n = 0 THEN "processing" ELSE "searching"
  /\ exceededAt' = IF /\ exceededAt = 0
                      /\ params.tokenBudget # NoBudget
                      /\ totalTokens' >= params.tokenBudget
                   THEN levelsRun ELSE exceededAt
  /\ UNCHANGED <<params, remainingDepth, context, contexts, levelMeta, outcome, result,
                 levelsRun, mergesDone, plannerFailed, partialFailure>>
  /\ UNCHANGED <<extVars, adaptiveVars, budgetVars>>

\* generateQueries fails: executeResearchDepth throws, conductResearch catches
PlanFail ==
  /\ pc = "planning"
  /\ pc' = "done"
  /\ outcome' = "err"
  /\ plannerFailed' = TRUE
  /\ UNCHANGED <<params, remainingDepth, context, contexts, slots, levelMeta, result,
                 totalTokens, levelsRun, mergesDone, partialFailure>>
  /\ UNCHANGED <<extVars, adaptiveVars, budgetVars, exceededAt>>

\* the search of slot i settles: st = "ok" (with data), "err" (Result error)
\* or "threw" (rejected promise); the limiter then starts its next queued search
SearchSettle(i, st, data) ==
  /\ slots[i].st = "running"
  /\ LET settled == [slots EXCEPT ![i].st = st, ![i].data = data]
         queued == {j \in 1..MaxPlanned : settled[j].st = "queued"}
         next == IF queued = {} THEN settled
                 ELSE LET j == CHOOSE k \in queued : \A l \in queued : k <= l
                      IN  [settled EXCEPT ![j].st = "running"]
         failed == {j \in 1..MaxPlanned : next[j].st \in {"err", "threw"}}
         succeeded == {j \in 1..MaxPlanned : next[j].st = "ok"}
     IN
       /\ slots' = next
       /\ partialFailure' = (partialFailure \/ (failed # {} /\ succeeded # {}))
       /\ IF pc = "searching" /\ st = "threw"
          THEN pc' = "done" /\ outcome' = "err"
          ELSE IF pc = "searching" /\ AllSettled(next)
          THEN pc' = "processing" /\ UNCHANGED outcome
          ELSE UNCHANGED <<pc, outcome>>
  /\ UNCHANGED <<params, remainingDepth, context, contexts, levelMeta, result, totalTokens,
                 levelsRun, mergesDone, plannerFailed>>
  /\ UNCHANGED <<extVars, adaptiveVars, budgetVars, exceededAt>>

\* processSearchResults and the merge into updatedContext
ProcessAndMerge(v) ==
  /\ pc = "processing"
  /\ LET searchResults == [i \in 1..Cardinality(Planned) |-> SlotData(slots[i])]
         processed == processSearchResults(searchResults, v)
     IN  /\ context' = MergeContext(context, processed)
         /\ contexts' = ContextsAfterMerge(contexts, processed)
         /\ levelMeta' = processed.sourceMetadata
  /\ mergesDone' = mergesDone + 1
  /\ pc' = "merged"
  /\ UNCHANGED <<params, remainingDepth, slots, outcome, result, totalTokens,
                 levelsRun, plannerFailed, partialFailure>>
  /\ UNCHANGED <<extVars, adaptiveVars, budgetVars, exceededAt>>

\* the end of executeResearchDepth: recurse with remainingDepth - 1 or return
AfterMerge ==
  /\ pc = "merged"
  /\ IF Recurses(remainingDepth)
     THEN /\ remainingDepth' = NextDepth(remainingDepth)
          /\ levelsRun' = levelsRun + 1
          /\ pc' = "planning"
          /\ UNCHANGED <<outcome, result>>
     ELSE /\ pc' = "done"
          /\ outcome' = "ok"
          /\ result' = MakeResult(context, levelMeta)
          /\ UNCHANGED <<remainingDepth, levelsRun>>
  /\ UNCHANGED <<params, context, contexts, slots, levelMeta, totalTokens,
                 mergesDone, plannerFailed, partialFailure>>
  /\ UNCHANGED <<extVars, adaptiveVars, budgetVars, exceededAt>>

NextResearch ==
  \/ ConductResearch
  \/ \E n \in 0..MaxPlanned : \E u \in Usages : PlanReturn(n, u)
  \/ PlanFail
  \/ \E i \in 1..MaxPlanned : \E d \in SearchData : SearchSettle(i, "ok", d)
  \/ \E i \in 1..MaxPlanned : \E st \in {"err", "threw"} : SearchSettle(i, st, <<>>)
  \/ \E v \in EvaluatorReplies : ProcessAndMerge(v)
  \/ AfterMerge

InitResearchSpec == IdleAdaptive /\ InitResearch /\ IdleBudget /\ IdleTier /\ IdleEval /\ IdleFirecrawl /\ IdleServer /\ IdleTools /\ IdlePool /\ IdlePerf

SpecResearch == InitResearchSpec /\ [][NextResearch]_vars

\* the return of the evaluation call, whatever the evaluator replied: the
\* step of ProcessAndMerge as pc shows it
EvaluationReturns == pc = "processing" /\ pc' = "merged"

\* every planner, search and evaluation call returns, and the code between
\* two awaits runs
ResearchCallsReturn ==
  /\ WF_vars(ConductResearch)
  /\ WF_vars(PlanFail \/ \E n \in 0..MaxPlanned : \E u \in Usages : PlanReturn(n, u))
  /\ WF_vars(\E i \in 1..MaxPlanned : \E st \in {"ok", "err", "threw"} : \E d \in SearchData : SearchSettle(i, st, d))
  /\ WF_pc(EvaluationReturns)
  /\ WF_vars(AfterMerge)

SpecResearchFair == SpecResearch /\ ResearchCallsReturn

BudgetExceeded ==
  params.tokenBudget # NoBudget /\ totalTokens >= params.tokenBudget

(* ------------------- Budget accountant (BudgetState) ------------------- *)
\* exceeded set only once the total has passed the cap
charge_strict(b, units) ==
  LET newTotal == b.total + units
  IN  [b EXCEPT !.total = newTotal,
                !.exceeded = b.exceeded \/ (b.cap # NoBudget /\ newTotal > b.cap)]

\* charge(units): the running total grows by units; exceeded is set once the
\* total has reached the cap and is never reset
charge(b, units) ==
  LET newTotal == b.total + units
  IN  [b EXCEPT !.total = newTotal,
                !.exceeded = b.exceeded \/ (b.cap # NoBudget /\ newTotal >= b.cap)]

\* recordUsage(budget, usage): charges usage.totalTokens when there is a usage
recordUsage(b, usage) == IF usage # 0 THEN charge(b, usage) ELSE b

OthersInFlight(t) == \E o \in Tasks \ {t} : tasks[o].st # "idle"

\* evaluateSourceReliability up to `await generateObject(...)`
EvalStart(t) ==
  /\ tasks[t].st = "idle"
  /\ calls < MaxCalls
  /\ calls' = calls + 1
  /\ tasks' = [tasks EXCEPT ![t].st = "evaluating"]
  /\ UNCHANGED <<budget, charged, cache, totalCalls, cacheHits, generated, overlapped,
                 answers, modelCalls, lastServed>>
  /\ UNCHANGED <<extVars, adaptiveVars, researchVars, totalTokens>>

\* the model replies: recordUsage(budget, res.usage), then Ok(...)
EvalReturn(t, usage) ==
  /\ tasks[t].st = "evaluating"
  /\ budget' = recordUsage(budget, usage)
  /\ charged' = charged + usage
  /\ overlapped' = (overlapped \/ (usage # 0 /\ OthersInFlight(t)))
  /\ tasks' = [tasks EXCEPT ![t] = IdleTask]
  /\ UNCHANGED <<calls, cache, totalCalls, cacheHits, generated, answers, modelCalls,
                 lastServed>>
  /\ UNCHANGED <<extVars, adaptiveVars, researchVars, totalTokens>>

\* the model fails: the catch returns Err(AIModelError), nothing is charged
EvalThrow(t) ==
  /\ tasks[t].st = "evaluating"
  /\ tasks' = [tasks EXCEPT ![t] = IdleTask]
  /\ UNCHANGED <<budget, charged, calls, cache, totalCalls, cacheHits, generated, overlapped,
                 answers, modelCalls, lastServed>>
  /\ UNCHANGED <<extVars, adaptiveVars, researchVars, totalTokens>>

(* ------------------------ BatchedModelProvider ------------------------- *)
\* base64 of the request text cut to 64 characters: its first 48 bytes
getCacheKey(r) == r.head

Expired(e, t) == t > e.timestamp + e.ttl

\* getFromCache: the cache after the read (an expired entry is deleted)
CacheAfterGet(c, key, t) ==
  IF c[key] # NoEntry /\ Expired(c[key], t) THEN [c EXCEPT ![key] = NoEntry] ELSE c

\* getFromCache: the entry served, NoEntry for null
getFromCache(c, key, t) ==
  IF c[key] = NoEntry \/ Expired(c[key], t) THEN NoEntry ELSE c[key]

cleanupCache(c, t) ==
  [k \in CacheKeys |-> IF c[k] # NoEntry /\ Expired(c[k], t) THEN NoEntry ELSE c[k]]

setCache(c, key, res, ttl, t) ==
  LET c1 == [c EXCEPT ![key] = [result |-> res, timestamp |-> t, ttl |-> ttl]]
  IN  IF Cardinality({k \in CacheKeys : c1[k] # NoEntry}) > cleanupThreshold
      THEN cleanupCache(c1, t) ELSE c1

\* generateObject up to its return from the cache or `await generateObject(params)`
GenStart(t, r) ==
  /\ tasks[t].st = "idle"
  /\ calls < MaxCalls
  /\ calls' = calls + 1
  /\ totalCalls' = totalCalls + 1
  /\ cache' = CacheAfterGet(cache, getCacheKey(r), now)
  /\ IF getFromCache(cache, getCacheKey(r), now) # NoEntry
     THEN /\ cacheHits' = cacheHits + 1
          /\ UNCHANGED tasks
     ELSE /\ tasks' = [tasks EXCEPT ![t] = [st |-> "generating", req |-> r]]
          /\ UNCHANGED cacheHits
  /\ UNCHANGED <<budget, charged, generated, overlapped>>
  /\ UNCHANGED <<extVars, adaptiveVars, researchVars, totalTokens>>

\* the model replies: updateStats, setCache with the 5 minute TTL, Ok(object)
GenReturn(t, reply, usage) ==
  /\ tasks[t].st = "generating"
  /\ totalTokens' = updateStats(totalTokens, usage)
  /\ generated' = generated + usage
  /\ overlapped' = (overlapped \/ (usage # 0 /\ OthersInFlight(t)))
  /\ cache' = setCache(cache, getCacheKey(tasks[t].req), reply, cacheTtl, now)
  /\ tasks' = [tasks EXCEPT ![t] = IdleTask]
  /\ UNCHANGED <<budget, charged, calls, totalCalls, cacheHits>>
  /\ UNCHANGED <<extVars, adaptiveVars, researchVars>>

\* the model fails: updateStats(duration) without usage, Err(AIModelError)
GenThrow(t) ==
  /\ tasks[t].st = "generating"
  /\ totalTokens' = updateStats(totalTokens, 0)
  /\ tasks' = [tasks EXCEPT ![t] = IdleTask]
  /\ UNCHANGED <<budget, charged, calls, cache, totalCalls, cacheHits, generated, overlapped,
                 answers, modelCalls, lastServed>>
  /\ UNCHANGED <<extVars, adaptiveVars, researchVars>>

\* time passes, one cache TTL at a time
CacheTick ==
  /\ now < MaxTicks * cacheTtl
  /\ now' = now + cacheTtl
  /\ UNCHANGED <<concurrency, limit, limiters, lastAdjustment, metrics, callers,
                 adjustCounts, thrownToCaller>>
  /\ UNCHANGED <<extVars, researchVars, totalTokens, budgetVars>>

\* generateObject with nothing recorded about what it returns
GenStartPlain(t, r) ==
  /\ GenStart(t, r)
  /\ UNCHANGED <<answers, modelCalls, lastServed>>

GenReturnPlain(t, reply, usage) ==
  /\ GenReturn(t, reply, usage)
  /\ UNCHANGED <<answers, modelCalls, lastServed>>

\* generateObject with its record: `return Ok(cached)` on a hit (the entry
\* served and the time), one more call of the model on a miss
GenStartObserved(t, r) ==
  /\ GenStart(t, r)
  /\ LET cached == getFromCache(cache, getCacheKey(r), now) IN
       IF cached # NoEntry
       THEN /\ answers' = answers \cup {[req |-> r, object |-> cached.result, hit |-> TRUE]}
            /\ lastServed' = [result |-> cached.result, timestamp |-> cached.timestamp,
                              ttl |-> cached.ttl, at |-> now]
            /\ UNCHANGED modelCalls
       ELSE /\ modelCalls' = [modelCalls EXCEPT ![r] = @ + 1]
            /\ UNCHANGED <<answers, lastServed>>

\* generateObject with its record: `return Ok(result.object)` after the model call
GenReturnObserved(t, reply, usage) ==
  /\ GenReturn(t, reply, usage)
  /\ answers' = answers \cup {[req |-> tasks[t].req, object |-> reply, hit |-> FALSE]}
  /\ UNCHANGED <<modelCalls, lastServed>>

NextBudget ==
  \/ \E t \in Tasks : EvalStart(t)
  \/ \E t \in Tasks : \E u \in Usages : EvalReturn(t, u)
  \/ \E t \in Tasks : EvalThrow(t)
  \/ \E t \in Tasks : \E r \in Requests : GenStartPlain(t, r)
  \/ \E t \in Tasks : \E o \in Replies : \E u \in Usages : GenReturnPlain(t, o, u)
  \/ \E t \in Tasks : GenThrow(t)
  \/ CacheTick

NextModelCache ==
  \/ \E t \in Tasks : \E r \in Requests : GenStartObserved(t, r)
  \/ \E t \in Tasks : \E o \in Replies : \E u \in Usages : GenReturnObserved(t, o, u)
  \/ \E t \in Tasks : GenThrow(t)
  \/ CacheTick

InitBudgetSpec == IdleAdaptive /\ IdleResearch /\ InitBudget /\ IdleTier /\ IdleEval /\ IdleFirecrawl /\ IdleServer /\ IdleTools /\ IdlePool /\ IdlePerf

SpecBudget == InitBudgetSpec /\ [][NextBudget]_vars

InitModelCacheSpec == IdleAdaptive /\ IdleResearch /\ IdleBudget /\ IdleTier /\ IdleEval /\ IdleFirecrawl /\ IdleServer /\ IdleTools /\ IdlePool /\ IdlePerf

SpecModelCache == InitModelCacheSpec /\ [][NextModelCache]_vars

(* -------------------- MultiLevelCache: get and set -------------------- *)
\* a client that is not inside a call may make the next one
CanCall(c) ==
  /\ clients[c].pc = "idle"
  /\ tierOps < MaxTierOps
  /\ \A d \in Clients : clients[d].pc = "idle" => c <= d

TierTick ==
  /\ clock < MaxTierTicks * TierTickSeconds
  /\ clock' = clock + TierTickSeconds
  /\ l1' = Purge(l1, clock')
  /\ l2' = Purge(l2, clock')
  /\ l3' = Purge(l3, clock')
  /\ UNCHANGED <<hasL3, clients, tierOps, lastReturn, otherVars>>

\* MultiLevelCache.get: the call, up to `await this.l1.get(key)`
GetCall(c, k) ==
  /\ CanCall(c)
  /\ clients' = [clients EXCEPT ![c] = [IdleClient EXCEPT !.pc = "l1", !.op = "get", !.key = k]]
  /\ tierOps' = tierOps + 1
  /\ UNCHANGED <<clock, hasL3, l1, l2, l3, lastReturn, nonTierVars>>

GetCallPlain(c, k) == GetCall(c, k) /\ UNCHANGED tierObs

\* MultiLevelCache.get: l1.get resolves
GetL1(c) ==
  /\ clients[c].pc = "l1"
  /\ LET e == l1[clients[c].key]
         seen == Append(clients[c].reads, 1)
         r == [clients[c] EXCEPT !.reads = seen]
     IN IF Live(e, clock)
        THEN /\ clients' = [clients EXCEPT ![c] = IdleClient]
             /\ lastReturn' = Returned(r, e.value)
        ELSE /\ clients' = [clients EXCEPT ![c] = [r EXCEPT !.pc = "l2"]]
             /\ UNCHANGED lastReturn
  /\ UNCHANGED <<clock, hasL3, l1, l2, l3, tierOps, otherVars>>

GetL2_noPopulate(c) ==
  /\ clients[c].pc = "l2"
  /\ LET e == l2[clients[c].key]
         seen == Append(clients[c].reads, 2)
         r == [clients[c] EXCEPT !.reads = seen]
     IN IF Live(e, clock)
        THEN /\ clients' = [clients EXCEPT ![c] = IdleClient]
             /\ lastReturn' = Returned(r, e.value)
        ELSE IF hasL3
        THEN /\ clients' = [clients EXCEPT ![c] = [r EXCEPT !.pc = "l3"]]
             /\ UNCHANGED lastReturn
        ELSE /\ clients' = [clients EXCEPT ![c] = IdleClient]
             /\ lastReturn' = Returned(r, Null)
  /\ UNCHANGED <<clock, hasL3, l1, l2, l3, tierOps, otherVars>>

\* MultiLevelCache.get: l2.get resolves
GetL2(c) ==
  /\ clients[c].pc = "l2"
  /\ LET e == l2[clients[c].key]
         seen == Append(clients[c].reads, 2)
         r == [clients[c] EXCEPT !.reads = seen]
     IN IF Live(e, clock)
        THEN /\ clients' = [clients EXCEPT ![c] = [r EXCEPT !.pc = "fill1", !.value = e.value]]
             /\ UNCHANGED lastReturn
        ELSE IF hasL3
        THEN /\ clients' = [clients EXCEPT ![c] = [r EXCEPT !.pc = "l3"]]
             /\ UNCHANGED lastReturn
        ELSE /\ clients' = [clients EXCEPT ![c] = IdleClient]
             /\ lastReturn' = Returned(r, Null)
  /\ UNCHANGED <<clock, hasL3, l1, l2, l3, tierOps, otherVars>>

\* MultiLevelCache.get: l3.get resolves
GetL3(c) ==
  /\ clients[c].pc = "l3"
  /\ LET e == l3[clients[c].key]
         seen == Append(clients[c].reads, 3)
         r == [clients[c] EXCEPT !.reads = seen]
     IN IF Live(e, clock)
        THEN /\ clients' = [clients EXCEPT ![c] = [r EXCEPT !.pc = "fill2", !.value = e.value]]
             /\ UNCHANGED lastReturn
        ELSE /\ clients' = [clients EXCEPT ![c] = IdleClient]
             /\ lastReturn' = Returned(r, Null)
  /\ UNCHANGED <<clock, hasL3, l1, l2, l3, tierOps, otherVars>>

\* MultiLevelCache.get: `await this.l2.set(key, value, 3600)` after an l3 hit
FillL2(c) ==
  /\ clients[c].pc = "fill2"
  /\ l2' = [l2 EXCEPT ![clients[c].key] = TierEntry(clients[c].value, sharedFillTtl, clock)]
  /\ clients' = [clients EXCEPT ![c].pc = "fill1"]
  /\ UNCHANGED <<clock, hasL3, l1, l3, tierOps, lastReturn, otherVars>>

\* MultiLevelCache.get: `await this.l1.set(key, value, 300)` and `return value`
FillL1(c) ==
  /\ clients[c].pc = "fill1"
  /\ l1' = [l1 EXCEPT ![clients[c].key] = TierEntry(clients[c].value, nearFillTtl, clock)]
  /\ clients' = [clients EXCEPT ![c] = IdleClient]
  /\ lastReturn' = Returned(clients[c], clients[c].value)
  /\ UNCHANGED <<clock, hasL3, l2, l3, tierOps, otherVars>>

\* MultiLevelCache.set: the call, up to `await Promise.allSettled(promises)`
SetCall(c, k, v, ttl) ==
  /\ CanCall(c)
  /\ clients' = [clients EXCEPT ![c] =
       [IdleClient EXCEPT !.pc = "writing", !.op = "set", !.key = k, !.value = v,
                          !.ttl = ttl, !.pend = ConfiguredTiers]]
  /\ tierOps' = tierOps + 1
  /\ UNCHANGED <<clock, hasL3, l1, l2, l3, lastReturn, otherVars>>

\* MultiLevelCache.set: the set of tier i takes effect
TierSet(c, i) ==
  /\ clients[c].pc = "writing"
  /\ i \in clients[c].pend
  /\ LET k == clients[c].key
         e == TierEntry(clients[c].value, SetTtl(i, clients[c].ttl), clock)
     IN /\ l1' = IF i = 1 THEN [l1 EXCEPT ![k] = e] ELSE l1
        /\ l2' = IF i = 2 THEN [l2 EXCEPT ![k] = e] ELSE l2
        /\ l3' = IF i = 3 THEN [l3 EXCEPT ![k] = e] ELSE l3
  /\ clients' = [clients EXCEPT ![c].pend = @ \ {i}]
  /\ UNCHANGED <<clock, hasL3, tierOps, lastReturn, otherVars>>

\* MultiLevelCache.set: Promise.allSettled resolves and set returns
SetReturn(c) ==
  /\ clients[c].pc = "writing"
  /\ clients[c].pend = {}
  /\ clients' = [clients EXCEPT ![c] = IdleClient]
  /\ lastReturn' = Returned(clients[c], Null)
  /\ UNCHANGED <<clock, hasL3, l1, l2, l3, tierOps, nonTierVars>>

SetReturnPlain(c) == SetReturn(c) /\ UNCHANGED tierObs

NextTier ==
  \/ TierTick
  \/ \E c \in Clients : \E k \in TierKeys : GetCallPlain(c, k)
  \/ \E c \in Clients : GetL1(c)
  \/ \E c \in Clients : GetL2(c)
  \/ \E c \in Clients : GetL3(c)
  \/ \E c \in Clients : FillL2(c)
  \/ \E c \in Clients : FillL1(c)
  \/ \E c \in Clients : \E k \in TierKeys : \E in \in SetInputs :
       SetCall(c, k, in.value, in.ttl)
  \/ \E c \in Clients : \E i \in 1..3 : TierSet(c, i)
  \/ \E c \in Clients : SetReturnPlain(c)

InitTierSpec == IdleAdaptive /\ IdleResearch /\ IdleBudget /\ InitTier /\ IdleEval /\ IdleFirecrawl /\ IdleServer /\ IdleTools /\ IdlePool /\ IdlePerf

SpecTier == InitTierSpec /\ [][NextTier]_vars


(* ------------- MultiLevelCache: delete, exists, failing tiers ----------- *)
\* what a call resolves to when its promise is rejected
Raised == "raised"

\* the tier whose get or exists the client is waiting for
TierAt(pcv) ==
  CASE pcv \in {"l1", "e1"} -> 1
    [] pcv \in {"l2", "e2"} -> 2
    [] OTHER -> 3

\* MultiLevelCache.get: the awaited get of a tier rejects; get has no catch
TierGetRaises(c) ==
  /\ clients[c].pc \in {"l1", "l2", "l3"}
  /\ lastReturn' = Returned([clients[c] EXCEPT !.reads = Append(@, TierAt(clients[c].pc))], Raised)
  /\ clients' = [clients EXCEPT ![c] = IdleClient]
  /\ UNCHANGED <<clock, hasL3, l1, l2, l3, tierOps, otherVars>>

\* MultiLevelCache.get: the awaited l2.set or l1.set after a hit rejects
FillRaises(c) ==
  /\ clients[c].pc \in {"fill1", "fill2"}
  /\ lastReturn' = Returned(clients[c], Raised)
  /\ clients' = [clients EXCEPT ![c] = IdleClient]
  /\ UNCHANGED <<clock, hasL3, l1, l2, l3, tierOps, otherVars>>

\* MultiLevelCache.set / delete: the promise of tier i rejects; allSettled keeps it
TierWriteFails(c, i) ==
  /\ clients[c].pc \in {"writing", "deleting"}
  /\ i \in clients[c].pend
  /\ clients' = [clients EXCEPT ![c].pend = @ \ {i}]
  /\ UNCHANGED <<clock, hasL3, l1, l2, l3, tierOps, lastReturn, otherVars>>

\* MultiLevelCache.delete: the call, up to `await Promise.allSettled(promises)`
DeleteCall(c, k) ==
  /\ CanCall(c)
  /\ clients' = [clients EXCEPT ![c] =
       [IdleClient EXCEPT !.pc = "deleting", !.op = "delete", !.key = k,
                          !.pend = ConfiguredTiers]]
  /\ tierOps' = tierOps + 1
  /\ UNCHANGED <<clock, hasL3, l1, l2, l3, lastReturn, otherVars>>

\* MultiLevelCache.delete: the delete of tier i takes effect
TierDelete(c, i) ==
  /\ clients[c].pc = "deleting"
  /\ i \in clients[c].pend
  /\ LET k == clients[c].key
     IN /\ l1' = IF i = 1 THEN [l1 EXCEPT ![k] = NoTierEntry] ELSE l1
        /\ l2' = IF i = 2 THEN [l2 EXCEPT ![k] = NoTierEntry] ELSE l2
        /\ l3' = IF i = 3 THEN [l3 EXCEPT ![k] = NoTierEntry] ELSE l3
  /\ clients' = [clients EXCEPT ![c].pend = @ \ {i}]
  /\ UNCHANGED <<clock, hasL3, tierOps, lastReturn, otherVars>>

\* MultiLevelCache.delete: Promise.allSettled resolves and delete returns
DeleteReturn(c) ==
  /\ clients[c].pc = "deleting"
  /\ clients[c].pend = {}
  /\ clients' = [clients EXCEPT ![c] = IdleClient]
  /\ lastReturn' = Returned(clients[c], Null)
  /\ UNCHANGED <<clock, hasL3, l1, l2, l3, tierOps, nonTierVars>>

DeleteReturnPlain(c) == DeleteReturn(c) /\ UNCHANGED tierObs

\* MultiLevelCache.exists: the call, up to `await this.l1.exists(key)`
ExistsCall(c, k) ==
  /\ CanCall(c)
  /\ clients' = [clients EXCEPT ![c] = [IdleClient EXCEPT !.pc = "e1", !.op = "exists", !.key = k]]
  /\ tierOps' = tierOps + 1
  /\ UNCHANGED <<clock, hasL3, l1, l2, l3, lastReturn, nonTierVars>>

ExistsCallPlain(c, k) == ExistsCall(c, k) /\ UNCHANGED tierObs

\* MultiLevelCache.exists: the exists of the awaited tier resolves
ExistsStep(c) ==
  /\ clients[c].pc \in {"e1", "e2", "e3"}
  /\ LET i == TierAt(clients[c].pc)
         store == CASE i = 1 -> l1 [] i = 2 -> l2 [] OTHER -> l3
         r == [clients[c] EXCEPT !.reads = Append(@, i)]
     IN IF Live(store[r.key], clock)
        THEN /\ clients' = [clients EXCEPT ![c] = IdleClient]
             /\ lastReturn' = Returned(r, "true")
        ELSE IF i + 1 \in ConfiguredTiers
        THEN /\ clients' = [clients EXCEPT ![c] =
                  [r EXCEPT !.pc = IF i = 1 THEN "e2" ELSE "e3"]]
             /\ UNCHANGED lastReturn
        ELSE /\ clients' = [clients EXCEPT ![c] = IdleClient]
             /\ lastReturn' = Returned(r, "false")
  /\ UNCHANGED <<clock, hasL3, l1, l2, l3, tierOps, otherVars>>

\* MultiLevelCache.exists: the awaited exists of a tier rejects; exists has no catch
TierExistsRaises(c) ==
  /\ clients[c].pc \in {"e1", "e2", "e3"}
  /\ lastReturn' = Returned([clients[c] EXCEPT !.reads = Append(@, TierAt(clients[c].pc))], Raised)
  /\ clients' = [clients EXCEPT ![c] = IdleClient]
  /\ UNCHANGED <<clock, hasL3, l1, l2, l3, tierOps, otherVars>>

NextTierFaults ==
  \/ NextTier
  \/ \E c \in Clients : TierGetRaises(c)
  \/ \E c \in Clients : FillRaises(c)
  \/ \E c \in Clients : \E i \in 1..3 : TierWriteFails(c, i)
  \/ \E c \in Clients : \E k \in TierKeys : DeleteCall(c, k)
  \/ \E c \in Clients : \E i \in 1..3 : TierDelete(c, i)
  \/ \E c \in Clients : DeleteReturnPlain(c)
  \/ \E c \in Clients : \E k \in TierKeys : ExistsCallPlain(c, k)
  \/ \E c \in Clients : ExistsStep(c)
  \/ \E c \in Clients : TierExistsRaises(c)

InitTierFaultsSpec == IdleAdaptive /\ IdleResearch /\ IdleBudget /\ InitTier /\ IdleEval /\ IdleFirecrawl /\ IdleServer /\ IdleTools /\ IdlePool /\ IdlePerf

SpecTierFaults == InitTierFaultsSpec /\ [][NextTierFaults]_vars

(* ------------------ DefaultSourceEvaluationService -------------------- *)
\* evaluateReliability up to `await generateObject(...)`; an exception before
\* the await is caught by the outer catch
ReliabilityCall(t, url) ==
  /\ evals[t].st = "idle"
  /\ evalCalls < MaxCalls
  /\ \A o \in Tasks : evals[o].st = "idle" => t <= o
  /\ evalCalls' = evalCalls + 1
  /\ IF DomainOf(url) = Throws
     THEN /\ evalResult' = ErrAssessment(url, Throws)
          /\ UNCHANGED evals
     ELSE /\ evals' = [evals EXCEPT ![t] = [st |-> "awaiting", url |-> url, domain |-> DomainOf(url)]]
          /\ UNCHANGED evalResult
  /\ UNCHANGED nonEvalVars

\* generateObject resolves: `return Ok({...})`
ReliabilityReply(t, obj) ==
  /\ evals[t].st = "awaiting"
  /\ evalResult' = OkAssessment(evals[t].url, obj, evals[t].domain)
  /\ evals' = [evals EXCEPT ![t] = IdleEvalTask]
  /\ UNCHANGED <<evalCalls, nonEvalVars>>

\* generateObject rejects: `catch (error) { return Err(new AIModelError(...)) }`
ReliabilityFail(t, cause) ==
  /\ evals[t].st = "awaiting"
  /\ evalResult' = ErrAssessment(evals[t].url, cause)
  /\ evals' = [evals EXCEPT ![t] = IdleEvalTask]
  /\ UNCHANGED <<evalCalls, nonEvalVars>>

NextEvaluator ==
  \/ \E t \in Tasks : \E url \in ItemUrls : ReliabilityCall(t, url)
  \/ \E t \in Tasks : \E obj \in ModelObjects : ReliabilityReply(t, obj)
  \/ \E t \in Tasks : \E cause \in ModelFailures : ReliabilityFail(t, cause)

InitEvaluatorSpec == IdleAdaptive /\ IdleResearch /\ IdleBudget /\ IdleTier /\ IdleEval /\ IdleFirecrawl /\ IdleServer /\ IdleTools /\ IdlePool /\ IdlePerf

SpecEvaluator == InitEvaluatorSpec /\ [][NextEvaluator]_vars

(* --------------------------- FirecrawlClient --------------------------- *)
FirstAttempt_cloudFirst(local, use, cloud) ==
  IF cloud THEN "cloud" ELSE IF local /\ use THEN "local" ELSE "none"

\* where search goes first: `if (this.localClient && this.useLocal)`, else
\* `if (this.cloudClient)`, else the final throw
FirstAttempt(local, use, cloud) ==
  IF local /\ use THEN "local" ELSE IF cloud THEN "cloud" ELSE "none"

AfterLocalFailure_giveUp(cloud) == "none"

\* where search goes after the catch of the local attempt
AfterLocalFailure(cloud) == IF cloud THEN "cloud" ELSE "none"

\* search up to its first await, or to the final throw
FcSearch(c) ==
  /\ searches[c].pc = "idle"
  /\ fcCalls < MaxCalls
  /\ \A d \in Callers : searches[d].pc = "idle" => c <= d
  /\ fcCalls' = fcCalls + 1
  /\ LET first == FirstAttempt(localClient, useLocal, cloudClient)
     IN IF first = "none"
        THEN /\ fcLast' = [how |-> NoInstance, tried |-> <<>>]
             /\ UNCHANGED searches
        ELSE /\ searches' = [searches EXCEPT ![c] = [pc |-> first, tried |-> <<first>>]]
             /\ UNCHANGED fcLast
  /\ UNCHANGED <<localClient, cloudClient, useLocal, nonFcVars>>

\* `await this.localClient.search(...)` resolves: `return result`
LocalReturns(c) ==
  /\ searches[c].pc = "local"
  /\ fcLast' = [how |-> "local result", tried |-> searches[c].tried]
  /\ searches' = [searches EXCEPT ![c] = IdleSearch]
  /\ UNCHANGED <<localClient, cloudClient, useLocal, fcCalls, nonFcVars>>

\* `await this.localClient.search(...)` rejects: useLocal = false, then the
\* cloud attempt or the final throw
LocalFails(c) ==
  /\ searches[c].pc = "local"
  /\ useLocal' = FALSE
  /\ LET then == AfterLocalFailure(cloudClient)
     IN IF then = "none"
        THEN /\ fcLast' = [how |-> NoInstance, tried |-> searches[c].tried]
             /\ searches' = [searches EXCEPT ![c] = IdleSearch]
        ELSE /\ searches' = [searches EXCEPT ![c] =
                  [pc |-> then, tried |-> Append(searches[c].tried, then)]]
             /\ UNCHANGED fcLast
  /\ UNCHANGED <<localClient, cloudClient, fcCalls, nonFcVars>>

\* `await this.cloudClient.search(...)` resolves: `return result`
CloudReturns(c) ==
  /\ searches[c].pc = "cloud"
  /\ fcLast' = [how |-> "cloud result", tried |-> searches[c].tried]
  /\ searches' = [searches EXCEPT ![c] = IdleSearch]
  /\ UNCHANGED <<localClient, cloudClient, useLocal, fcCalls, nonFcVars>>

\* `await this.cloudClient.search(...)` rejects: the credits message or the
\* error itself is thrown
CloudFails(c, error) ==
  /\ searches[c].pc = "cloud"
  /\ fcLast' = [how |-> IF error = "credits" THEN CreditsExhausted ELSE "cloud error",
                tried |-> searches[c].tried]
  /\ searches' = [searches EXCEPT ![c] = IdleSearch]
  /\ UNCHANGED <<localClient, cloudClient, useLocal, fcCalls, nonFcVars>>

NextFirecrawl ==
  \/ \E c \in Callers : FcSearch(c)
  \/ \E c \in Callers : LocalReturns(c)
  \/ \E c \in Callers : LocalFails(c)
  \/ \E c \in Callers : CloudReturns(c)
  \/ \E c \in Callers : \E error \in CloudErrors : CloudFails(c, error)

InitFirecrawlSpec == IdleAdaptive /\ IdleResearch /\ IdleBudget /\ IdleTier /\ IdleEval /\ InitFirecrawl /\ IdleServer /\ IdleTools /\ IdlePool /\ IdlePerf

SpecFirecrawl == InitFirecrawlSpec /\ [][NextFirecrawl]_vars

(* --------------------------- MCP server main --------------------------- *)
MayRetry_inclusive(attempts) == attempts <= maxReconnectAttempts

\* `if (reconnectAttempts < maxReconnectAttempts)`
MayRetry(attempts) == attempts < maxReconnectAttempts

\* the shared tail of transport.onclose and of the catch: count and schedule
\* the next connectWithRetry, or process.exit(1)
RetryOrExit ==
  IF MayRetry(reconnectAttempts)
  THEN /\ reconnectAttempts' = reconnectAttempts + 1
       /\ retryDelay' = retryBackoff * reconnectAttempts'
       /\ server' = "waiting"
       /\ UNCHANGED exitCode
  ELSE /\ server' = "exited"
       /\ exitCode' = 1
       /\ UNCHANGED <<reconnectAttempts, retryDelay>>

\* `await server.connect(transport)` resolves: the counter is reset, the
\* health interval and transport.onclose are installed
ConnectOk ==
  /\ server = "connecting"
  /\ server' = "connected"
  /\ reconnectAttempts' = 0
  /\ healthInterval' = TRUE
  /\ UNCHANGED <<retryDelay, connects, exitCode, nonMcpVars>>

\* `await server.connect(transport)` rejects: the catch
ConnectFail ==
  /\ server = "connecting"
  /\ RetryOrExit
  /\ UNCHANGED <<healthInterval, connects, nonMcpVars>>

\* transport.onclose
TransportClose ==
  /\ server = "connected"
  /\ healthInterval' = FALSE
  /\ RetryOrExit
  /\ UNCHANGED <<connects, nonMcpVars>>

\* the timer of setTimeout(connectWithRetry, ...) fires
RetryTimer ==
  /\ server = "waiting"
  /\ connects < MaxConnects
  /\ connects' = connects + 1
  /\ server' = "connecting"
  /\ retryDelay' = 0
  /\ UNCHANGED <<reconnectAttempts, healthInterval, exitCode, nonMcpVars>>

\* SIGINT: `await server.close(); process.exit(0)`
Sigint ==
  /\ server \in {"connecting", "connected", "waiting"}
  /\ server' = "exited"
  /\ exitCode' = 0
  /\ UNCHANGED <<reconnectAttempts, retryDelay, healthInterval, connects, nonMcpVars>>

NextServer == ConnectOk \/ ConnectFail \/ TransportClose \/ RetryTimer \/ Sigint

InitServerSpec == IdleAdaptive /\ IdleResearch /\ IdleBudget /\ IdleTier /\ IdleEval /\ IdleFirecrawl /\ ServerStart /\ IdleTools /\ IdlePool /\ IdlePerf

SpecServer == InitServerSpec /\ [][NextServer]_vars

(* ---------------- MultiLevelCache: expiry across the tiers -------------- *)
\* the waits between two steps, in seconds
ElapseSteps == {120, 180}

\* d seconds pass; every store drops what has expired
TierElapse(d) ==
  /\ clock + d <= MaxTierTicks * TierTickSeconds
  /\ clock' = clock + d
  /\ l1' = Purge(l1, clock')
  /\ l2' = Purge(l2, clock')
  /\ l3' = Purge(l3, clock')
  /\ UNCHANGED <<hasL3, clients, tierOps, lastReturn, otherVars>>

\* MultiLevelCache.set returns: what was written, with which ttl, and when
SetReturnObserved(c) ==
  /\ SetReturn(c)
  /\ lastSet' = TierEntry(clients[c].value, clients[c].ttl, clock)
  /\ UNCHANGED <<deleteDone, afterDelete>>

NextTierExpiry ==
  \/ \E d \in ElapseSteps : TierElapse(d)
  \/ \E c \in Clients : \E k \in TierKeys : GetCallPlain(c, k)
  \/ \E c \in Clients : GetL1(c)
  \/ \E c \in Clients : GetL2(c)
  \/ \E c \in Clients : GetL3(c)
  \/ \E c \in Clients : FillL2(c)
  \/ \E c \in Clients : FillL1(c)
  \/ \E c \in Clients : \E k \in TierKeys : \E in \in SetInputs :
       SetCall(c, k, in.value, in.ttl)
  \/ \E c \in Clients : \E i \in 1..3 : TierSet(c, i)
  \/ \E c \in Clients : SetReturnObserved(c)

InitTierExpirySpec == IdleAdaptive /\ IdleResearch /\ IdleBudget /\ InitTier /\ IdleEval /\ IdleFirecrawl /\ IdleServer /\ IdleTools /\ IdlePool /\ IdlePerf

SpecTierExpiry == InitTierExpirySpec /\ [][NextTierExpiry]_vars

(* ---------------- MultiLevelCache: delete against running reads --------- *)
\* a MultiLevelCache constructed over shared tiers that already hold k1: the
\* near tier lives in this process and starts empty
WarmTierStart(withL3) ==
  /\ clock = 0
  /\ hasL3 = withL3
  /\ l1 = EmptyStore
  /\ l2 = [k \in TierKeys |-> TierEntry("v2", 600, 0)]
  /\ l3 = IF withL3 THEN [k \in TierKeys |-> TierEntry("v2", SetTtl(3, 600), 0)] ELSE EmptyStore
  /\ clients = [c \in Clients |-> IdleClient]
  /\ tierOps = 0
  /\ lastReturn = NoReturn
  /\ lastSet = NoTierEntry
  /\ deleteDone = FALSE
  /\ afterDelete = {}

\* MultiLevelCache.get is called: before or after a delete has returned
GetCallObserved(c, k) ==
  /\ GetCall(c, k)
  /\ afterDelete' = IF deleteDone THEN afterDelete \cup {c} ELSE afterDelete \ {c}
  /\ UNCHANGED <<lastSet, deleteDone>>

\* MultiLevelCache.exists is called: before or after a delete has returned
ExistsCallObserved(c, k) ==
  /\ ExistsCall(c, k)
  /\ afterDelete' = IF deleteDone THEN afterDelete \cup {c} ELSE afterDelete \ {c}
  /\ UNCHANGED <<lastSet, deleteDone>>

\* MultiLevelCache.delete returns
DeleteReturnObserved(c) ==
  /\ DeleteReturn(c)
  /\ deleteDone' = TRUE
  /\ UNCHANGED <<lastSet, afterDelete>>

NextTierDelete ==
  \/ TierTick
  \/ \E c \in Clients : \E k \in TierKeys : GetCallObserved(c, k)
  \/ \E c \in Clients : GetL1(c)
  \/ \E c \in Clients : GetL2(c)
  \/ \E c \in Clients : GetL3(c)
  \/ \E c \in Clients : FillL2(c)
  \/ \E c \in Clients : FillL1(c)
  \/ \E c \in Clients : \E k \in TierKeys : DeleteCall(c, k)
  \/ \E c \in Clients : \E i \in 1..3 : TierDelete(c, i)
  \/ \E c \in Clients : DeleteReturnObserved(c)
  \/ \E c \in Clients : \E k \in TierKeys : ExistsCallObserved(c, k)
  \/ \E c \in Clients : ExistsStep(c)

InitTierDeleteSpec == IdleAdaptive /\ IdleResearch /\ IdleBudget /\ (\E withL3 \in BOOLEAN : WarmTierStart(withL3)) /\ IdleEval /\ IdleFirecrawl /\ IdleServer /\ IdleTools /\ IdlePool /\ IdlePerf

SpecTierDelete == InitTierDeleteSpec /\ [][NextTierDelete]_vars

(* --------------------------- PooledSearchClient ------------------------- *)
SearchEnds == {"ok", "err", "threw"}

Releases_unlessThrown(how) == how # "threw"

\* search: `try { ... } finally { this.releaseClient(client) }`
Releases(how) == TRUE

NextWaiter_last(queue) == Len(queue)

\* releaseClient: `this.waiting.shift()`, the index of the waiter served
NextWaiter(queue) == 1

RemoveAt(queue, i) == SubSeq(queue, 1, i - 1) \o SubSeq(queue, i + 1, Len(queue))

\* search up to `await client.search(query, options)`: acquireClient pops an
\* available client or queues a callback
PoolSearch(s) ==
  /\ searchers[s].pc = "idle"
  /\ poolCalls < MaxPoolCalls
  /\ poolCalls' = poolCalls + 1
  /\ IF Len(available) > 0
     THEN /\ searchers' = [searchers EXCEPT ![s].pc = "searching",
                                           ![s].client = available[Len(available)],
                                           ![s].via = "pop"]
          /\ available' = SubSeq(available, 1, Len(available) - 1)
          /\ activeConnections' = activeConnections + 1
          /\ UNCHANGED waiting
     ELSE /\ searchers' = [searchers EXCEPT ![s].pc = "waiting"]
          /\ waiting' = Append(waiting, s)
          /\ UNCHANGED <<available, activeConnections>>
  /\ UNCHANGED <<poolSize, nonPoolVars>>

\* client.search settles (a Result, or a throw) and search leaves through its
\* finally: releaseClient hands the client to a waiter or back to available
PoolSearchEnds(s, how) ==
  /\ searchers[s].pc = "searching"
  /\ IF ~Releases(how)
     THEN /\ searchers' = [searchers EXCEPT ![s] = [IdleSearcher EXCEPT !.last = how]]
          /\ UNCHANGED <<available, waiting, activeConnections>>
     ELSE IF Len(waiting) > 0
     THEN LET i == NextWaiter(waiting)
              w == waiting[i]
          IN  /\ searchers' = [searchers EXCEPT
                                 ![s] = [IdleSearcher EXCEPT !.last = how],
                                 ![w].pc = "searching",
                                 ![w].client = searchers[s].client,
                                 ![w].via = "release"]
              /\ waiting' = RemoveAt(waiting, i)
              /\ activeConnections' = (activeConnections - 1) + 1
              /\ UNCHANGED available
     ELSE /\ searchers' = [searchers EXCEPT ![s] = [IdleSearcher EXCEPT !.last = how]]
          /\ available' = Append(available, searchers[s].client)
          /\ activeConnections' = activeConnections - 1
          /\ UNCHANGED waiting
  /\ UNCHANGED <<poolSize, poolCalls, nonPoolVars>>

NextPool ==
  \/ \E s \in Searchers : PoolSearch(s)
  \/ \E s \in Searchers : \E how \in SearchEnds : PoolSearchEnds(s, how)

InitPoolSpec == IdleAdaptive /\ IdleResearch /\ IdleBudget /\ IdleTier /\ IdleEval /\ IdleFirecrawl /\ IdleServer /\ IdleTools /\ InitPool /\ IdlePerf

SpecPool == InitPoolSpec /\ [][NextPool]_vars

\* every search in flight settles
SpecPoolFair == SpecPool /\ \A s \in Searchers : WF_vars(\E how \in SearchEnds : PoolSearchEnds(s, how))

(* --------------------------- PerformanceMetrics ------------------------- *)
\* PerformanceMetrics.recordSuccess(operation, duration)
RecordSuccess(d) ==
  /\ recordCalls < MaxRecords
  /\ opMetric' = recordSuccess(opMetric, d)
  /\ successes' = successes + 1
  /\ recordCalls' = recordCalls + 1
  /\ UNCHANGED <<failures, nonPerfVars>>

\* PerformanceMetrics.recordError(operation, error, duration?)
RecordError(d) ==
  /\ recordCalls < MaxRecords
  /\ opMetric' = recordError(opMetric, d)
  /\ failures' = failures + 1
  /\ recordCalls' = recordCalls + 1
  /\ UNCHANGED <<successes, nonPerfVars>>

NextMetrics ==
  \/ \E d \in SampleDurations : RecordSuccess(d)
  \/ \E d \in SampleDurations \cup {NoDuration} : RecordError(d)

InitMetricsSpec == IdleAdaptive /\ IdleResearch /\ IdleBudget /\ IdleTier /\ IdleEval /\ IdleFirecrawl /\ IdleServer /\ IdleTools /\ IdlePool /\ InitPerf

SpecMetrics == InitMetricsSpec /\ [][NextMetrics]_vars

(* ---------------- the deep-research and research-sources tools ---------- *)
RECURSIVE GCD(_, _)
GCD(a, b) == IF b = 0 THEN a ELSE GCD(b, a % b)

Abs(a) == IF a < 0 THEN -a ELSE a

\* a / b of JavaScript numbers
Quotient(a, b) ==
  IF b = 0
  THEN [num |-> IF a > 0 THEN 1 ELSE IF a < 0 THEN -1 ELSE 0, den |-> 0]
  ELSE LET g == GCD(Abs(a), Abs(b))
       IN  [num |-> a \div g, den |-> b \div g]

\* weightedLearnings.reduce((acc, curr) => acc + curr.reliability, 0)
RECURSIVE SumReliability(_)
SumReliability(wl) ==
  IF wl = <<>> THEN 0 ELSE Head(wl).reliability + SumReliability(Tail(wl))

averageReliability_unguarded(wl) == Quotient(SumReliability(wl), Len(wl))

\* `weightedLearnings.length > 0 ? reduce(...) / length : 0`, in tenths
averageReliability(wl) ==
  IF Len(wl) > 0 THEN Quotient(SumReliability(wl), Len(wl)) ELSE Zero

\* (x * 100).toFixed(1) of an average x held in tenths: percent, rounded to
\* one decimal; NaN and Infinity print as themselves
toFixed1(q) ==
  IF q.den = 0 THEN q
  ELSE Quotient((2 * q.num * 100 + q.den) \div (2 * q.den), 10)

\* the percentage in the text of research-sources
shownAverage(res, avg) == IF Len(res.visitedUrls) > 0 THEN toFixed1(avg) ELSE Zero

\* the contexts a research can end with: up to two learnings with their stored
\* weights (0 for a weight the `|| 0.5` fallback replaces), and the URLs visited
ToolContexts ==
  { [learnings |-> <<>>, learningReliabilities |-> <<>>,
     visitedUrls |-> SubSeq(<<"u1", "u2", "u3">>, 1, m)] : m \in 0..1 }
  \cup { [learnings |-> <<"u1">>, learningReliabilities |-> <<a>>,
          visitedUrls |-> SubSeq(<<"u1", "u2", "u3">>, 1, m)] :
            a \in {0, 3, 8}, m \in 1..2 }
  \cup { [learnings |-> <<"u1", "u2">>, learningReliabilities |-> <<a, b>>,
          visitedUrls |-> SubSeq(<<"u1", "u2", "u3">>, 1, m)] :
            a \in {0, 3, 8}, b \in {0, 3, 8}, m \in 2..3 }

\* the ResearchResult values deepResearch can resolve with
ToolResults == {MakeResult(ctx, ctx.visitedUrls) : ctx \in ToolContexts}

\* the object a tool returns on success
ToolOk(name, res) ==
  LET avg == averageReliability(res.weightedLearnings)
  IN  [kind |-> "ok", name |-> name, averageReliability |-> avg,
       totalSources |-> Len(res.visitedUrls),
       shownAverage |-> IF name = "research-sources" THEN shownAverage(res, avg) ELSE Zero]

\* the object a tool returns from its catch block
ToolError(name) ==
  [kind |-> "error", name |-> name, averageReliability |-> Zero,
   totalSources |-> 0, shownAverage |-> Zero]

\* the MCP client calls one of the two tools: the handler awaits deepResearch
ToolCall(name) ==
  /\ toolRun.pc = "idle"
  /\ toolCalls < MaxToolCalls
  /\ toolCalls' = toolCalls + 1
  /\ toolRun' = [pc |-> "researching", name |-> name, result |-> NoResult]
  /\ toolReply' = NoToolReply
  /\ UNCHANGED nonToolVars

\* deepResearch resolves: research-sources builds researchData and returns,
\* deep-research goes on to writeFinalReport
ResearchResolves(res) ==
  /\ toolRun.pc = "researching"
  /\ IF toolRun.name = "research-sources"
     THEN /\ toolRun' = [toolRun EXCEPT !.pc = "idle", !.result = res]
          /\ toolReply' = ToolOk(toolRun.name, res)
     ELSE /\ toolRun' = [toolRun EXCEPT !.pc = "writing", !.result = res]
          /\ UNCHANGED toolReply
  /\ UNCHANGED <<toolCalls, nonToolVars>>

\* writeFinalReport resolves: deep-research returns the report and its stats
ReportWritten ==
  /\ toolRun.pc = "writing"
  /\ toolRun' = [toolRun EXCEPT !.pc = "idle"]
  /\ toolReply' = ToolOk(toolRun.name, toolRun.result)
  /\ UNCHANGED <<toolCalls, nonToolVars>>

\* deepResearch or writeFinalReport rejects: the catch block answers
ToolCatches ==
  /\ toolRun.pc \in {"researching", "writing"}
  /\ toolRun' = [toolRun EXCEPT !.pc = "idle"]
  /\ toolReply' = ToolError(toolRun.name)
  /\ UNCHANGED <<toolCalls, nonToolVars>>

NextTools ==
  \/ \E name \in ToolNames : ToolCall(name)
  \/ \E res \in ToolResults : ResearchResolves(res)
  \/ ReportWritten
  \/ ToolCatches

InitToolsSpec == IdleAdaptive /\ IdleResearch /\ IdleBudget /\ IdleTier /\ IdleEval /\ IdleFirecrawl /\ IdleServer /\ IdleTools /\ IdlePool /\ IdlePerf

SpecTools == InitToolsSpec /\ [][NextTools]_vars

InFlight == Cardinality({c \in Callers : callers[c].st = "running"})


(* ======================================================================= *)
(*                               Properties                                *)
(* ======================================================================= *)
NoDup(s) == \A i, j \in 1..Len(s) : i # j => s[i] # s[j]

ValidParams ==
  /\ params.depth \in paramMin..paramMax
  /\ params.breadth \in paramMin..paramMax

PlannedAt(l) == {i \in 1..MaxPlanned : slots[i].st # "none" /\ slots[i].lvl = l}

\* the searches of the current level that were handed to the search client
Dispatched == {i \in PlannedAt(levelsRun) : slots[i].st # "queued"}

\* C1: after any sequence of search completions and adjustment evaluations
\* the concurrency ceiling is within [minConcurrency, maxConcurrency].
C1_CeilingWithinBounds == concurrency \in minConcurrency..maxConcurrency

\* the ceiling was lowered to the minimum, and the rule is due again with a
\* high error rate on record: the next evaluation is held by the clamp
C1_Witness ==
  /\ Len(limiters) >= 2
  /\ concurrency = minConcurrency
  /\ metrics.count > minSamples
  /\ AdjustmentEvaluated(now, lastAdjustment, metrics)
  /\ HighErrorRate(metrics)

\* C2: at every moment the number of searches in flight through the
\* dispatcher is at most the current concurrency ceiling, also right after
\* the ceiling has been adjusted.
C2_InFlightWithinCeiling == InFlight <= concurrency

\* C3: after the merge of a level the controller is done if the budget is
\* exceeded, or the remaining depth has reached 0, or the planner produced no
\* query; only otherwise does it plan the next level (with depth - 1).
C3_StopsAfterMerge ==
  ValidParams =>
    /\ (pc = "planning" /\ levelsRun > 1) =>
         /\ ~BudgetExceeded
         /\ remainingDepth >= 1
         /\ PlannedAt(levelsRun - 1) # {}
    /\ (pc = "done" /\ outcome = "ok" /\ ~plannerFailed) =>
         \/ BudgetExceeded
         \/ remainingDepth - 1 = 0
         \/ PlannedAt(levelsRun) = {}

\* C4: in every session at most `breadth` searches are dispatched in each
\* level and at most `depth` levels are run.
C4_BreadthAndDepthBound ==
  ValidParams =>
    /\ Cardinality(Dispatched) <= params.breadth
    /\ levelsRun <= params.depth

C6_PlannerFailureReturnsContext ==
  (ValidParams /\ pc = "done" /\ plannerFailed) =>
    /\ outcome = "ok"
    /\ result.learnings = context.learnings
    /\ result.visitedUrls = context.visitedUrls

\* C7: when some but not all searches of a level fail (here: with a typed
\* error, no search rejecting and the planner never failing), the session
\* completes successfully and its result reports the number of failed queries.
C7_PartialSearchFailure ==
  (/\ ValidParams
   /\ pc = "done"
   /\ partialFailure
   /\ ~plannerFailed
   /\ \A i \in 1..MaxPlanned : slots[i].st # "threw") =>
    /\ outcome = "ok"
    /\ "failedQueries" \in DOMAIN result

\* C11: when the budget is reached in the middle of a level, the searches of
\* that level run to their own outcome (none is cancelled), and after that
\* level's boundary no search of a later level is dispatched.
C11_NoDispatchAfterExceeded ==
  (ValidParams /\ exceededAt # 0) =>
    /\ pc = "processing" => \A i \in PlannedAt(levelsRun) : slots[i].st \in {"ok", "err"}
    /\ \A i \in 1..MaxPlanned : slots[i].st # "none" => slots[i].lvl <= exceededAt

\* C12: a request whose depth or breadth is outside 1..5 makes no planner,
\* search or model call and does not end as a success.
C12_InvalidParamsRejected ==
  ~ValidParams =>
    /\ pc \in {"idle", "done"}
    /\ levelsRun = 0
    /\ pc = "done" => outcome = "err"

\* the adjustment rule as the specification states it: e is errors / count in
\* percent (compared crosswise), p the 95th-percentile latency
RuleOfSpec(c, m) ==
  LET p == p95Duration(m) IN
    IF 100 * m.errors > 20 * m.count THEN Max(minConcurrency, c - 1)
    ELSE IF 100 * m.errors < 5 * m.count /\ p < lowLatency THEN Min(maxConcurrency, c + 1)
    ELSE IF p > highLatency THEN Max(minConcurrency, c - 1)
    ELSE c

\* C13: whenever a completed search has an adjustment evaluated, the new
\* ceiling is the one the rule gives for the error rate and the p95 latency
\* on record, and a completion without an evaluation leaves the ceiling alone.
C13_AdjustmentRule ==
  [][ metrics' # metrics =>
        concurrency' = IF AdjustmentEvaluated(now, lastAdjustment, metrics')
                       THEN RuleOfSpec(concurrency, metrics')
                       ELSE concurrency ]_vars

\* the ceiling has just been lowered with no error on record: the slow
\* response branch of the rule was taken
C13_Witness ==
  /\ Len(limiters) >= 2
  /\ lastAdjustment = now
  /\ metrics.errors = 0
  /\ p95Duration(metrics) > highLatency
  /\ concurrency = limiters[Len(limiters) - 1].conc - 1

\* C14: a step changes the ceiling by at most 1, and a change happens only
\* when at least one adjustment interval has passed since the previous change
\* (lastAdjustment is the time of that change).
C14_OneStepPerInterval ==
  [][ /\ concurrency' - concurrency \in {-1, 0, 1}
      /\ concurrency' # concurrency =>
            (now' - lastAdjustment >= adjustmentInterval /\ lastAdjustment' = now')
      /\ concurrency' = concurrency => lastAdjustment' = lastAdjustment ]_vars

\* the ceiling has changed twice, the second time one interval after the first
C14_Witness ==
  /\ Len(limiters) >= 3
  /\ lastAdjustment = 2 * adjustmentInterval
  /\ concurrency # limiters[1].conc

\* C15: every change of the ceiling is made with at least minSamples samples
\* recorded since the previous change (since construction for the first one).
C15_MinSamplesSinceAdjustment ==
  limiters[1].conc = initialConcurrency =>
    \A i \in 1..Len(adjustCounts) :
      adjustCounts[i] - (IF i = 1 THEN 0 ELSE adjustCounts[i - 1]) >= minSamples

\* C16: a search that fails in the dispatcher is handed to its caller as a
\* typed error: no search() promise is ever rejected.
C16_FailureIsTypedError == ~thrownToCaller

\* C17: a read returns an entry only while now < created + ttl: the entry
\* last served was served before its time-to-live had elapsed.
C17_VisibleOnlyBeforeExpiry ==
  lastServed # NoServed => lastServed.at < lastServed.timestamp + lastServed.ttl

\* C18: while every entry written so far is unexpired, a request for which the
\* model was called once gets from the cache the very answer that call gave:
\* all evaluations of the request return the identical object.
C18_IdempotentWithinTtl ==
  now < cacheTtl =>
    \A a \in answers :
      (a.hit /\ modelCalls[a.req] = 1) =>
        \A b \in answers : b.req = a.req => b.object = a.object

\* the client's call returns in this step
Returns(c, op) == clients[c].op = op /\ clients'[c].pc = "idle"

ReadOrders == {<<1>>, <<1, 2>>, <<1, 2, 3>>}

ReadOfGet(c) ==
  LET r == clients[c]
      k == r.key
      ret == lastReturn'.ret
      seen == lastReturn'.reads
  IN /\ r.op = "get" => clients'[c].reads \in ReadOrders \cup {<<>>}
     \* the shared tier is consulted only after the near tier missed
     /\ (r.op = "get" /\ r.pc # "l2" /\ clients'[c].pc = "l2") =>
          (r.pc = "l1" /\ ~Live(l1[k], clock))
     \* a shared-tier hit is what the call goes on to return
     /\ (r.pc = "l2" /\ clients'[c] # r /\ Live(l2[k], clock)) =>
          (clients'[c].pc = "fill1" /\ clients'[c].value = l2[k].value)
     /\ Returns(c, "get") =>
          /\ seen \in ReadOrders
          /\ lastReturn'.key = k
          \* a near-tier hit returns the near tier's value
          /\ seen = <<1>> => (Live(l1[k], clock) /\ ret = l1[k].value)
          \* a hit further out returns the value read and populates the near tier
          /\ (Len(seen) >= 2 /\ ret # Null) =>
               (ret = r.value /\ l1'[k] = TierEntry(ret, nearFillTtl, clock))
          \* absent is returned exactly when every configured tier missed
          /\ ret = Null =>
               /\ Len(seen) = Cardinality(ConfiguredTiers)
               /\ ~Live((IF hasL3 THEN l3 ELSE l2)[k], clock)
          /\ ret # Null => seen[Len(seen)] \in ConfiguredTiers

\* C19: a get consults l1 first and l2 only when l1 missed; an l2 hit is
\* returned and written to l1; a miss in every configured tier returns null.
C19_ReadThroughTiers == [][\A c \in Clients : ReadOfGet(c)]_vars

\* a get found l1 expired, hit l2 and wrote the value back to l1
C19_Witness ==
  /\ lastReturn = [op |-> "get", key |-> "k1", ret |-> "v2", reads |-> <<1, 2>>]
  /\ l2["k1"] = TierEntry("v2", 600, 0)
  /\ l1["k1"] = TierEntry("v2", nearFillTtl, TierTickSeconds)

WriteOfSet(c) ==
  LET r == clients[c]
      k == r.key
      started == clients'[c]
  IN \* the call starts a write to every configured tier
     /\ (r.pc = "idle" /\ started.op = "set") => started.pend = ConfiguredTiers
     \* each write stores the value; l1 keeps it min(ttl, cap) seconds
     /\ (r.op = "set" /\ 1 \in r.pend /\ 1 \notin started.pend) =>
          /\ l1'[k] = TierEntry(r.value, Min(r.ttl, nearTtlCap), clock)
          /\ l1'[k].ttl <= r.ttl
     /\ (r.op = "set" /\ 2 \in r.pend /\ 2 \notin started.pend) =>
          (l2'[k].value = r.value /\ l2'[k].at = clock)
     /\ (r.op = "set" /\ 3 \in r.pend /\ 3 \notin started.pend) =>
          (l3'[k].value = r.value /\ l3'[k].at = clock)
     \* set returns after every write was made
     /\ Returns(c, "set") => r.pend = {}
     \* a set on its own leaves the value in every configured tier
     /\ (Returns(c, "set") /\ tierOps = 1 /\ clock = 0) =>
          /\ l1[k].value = r.value /\ l1[k].ttl = Min(r.ttl, nearTtlCap)
          /\ l2[k].value = r.value
          /\ hasL3 => l3[k].value = r.value

\* C20: set writes the value to every configured tier, and l1 keeps it for
\* min(ttl, 300) seconds, never longer than the ttl asked for.
C20_WriteToEveryTier == [][\A c \in Clients : WriteOfSet(c)]_vars

\* a set with a TTL above the cap has returned with all three tiers written
C20_Witness ==
  /\ lastReturn.op = "set"
  /\ tierOps = 1
  /\ hasL3
  /\ l1["k1"] = TierEntry("v2", nearTtlCap, 0)
  /\ l2["k1"] = TierEntry("v2", 600, 0)
  /\ l3["k1"] = TierEntry("v2", 1200, 0)

\* C21: no call of the tiered cache is rejected because a tier raised: a
\* failing read counts as a miss and a failing write is ignored.
C21_TierFailureContained == lastReturn.ret # Raised

\* the entry's TTL has elapsed: it is no longer inside `now < created + ttl`
Elapsed(e, t) == e # NoEntry /\ t >= e.timestamp + e.ttl

StoredKeys(c) == {k \in CacheKeys : c[k] # NoEntry}

ReadOrWriteOfCache ==
  /\ \* a read that served an entry served one whose TTL had not elapsed
     (calls' = calls + 1 /\ cacheHits' = cacheHits + 1) => ~Elapsed(lastServed', now)
  /\ \* a read of an entry whose TTL has elapsed misses and removes the entry
     \A t \in Tasks :
       (calls' = calls + 1 /\ tasks'[t].st = "generating" /\ tasks[t].st = "idle") =>
         LET key == getCacheKey(tasks'[t].req)
         IN cache[key] # NoEntry => (Elapsed(cache[key], now) /\ cache'[key] = NoEntry)
  /\ \* a write removes nothing but entries whose TTL has elapsed, and all of
     \* them once more than cleanupThreshold entries are stored
     \A t \in Tasks :
       (tasks[t].st = "generating" /\ tasks'[t].st = "idle" /\ cache' # cache) =>
         LET key == getCacheKey(tasks[t].req)
         IN /\ cache'[key] # NoEntry
            /\ \A k \in CacheKeys \ {key} :
                 /\ cache'[k] \in {cache[k], NoEntry}
                 /\ cache'[k] # cache[k] => Elapsed(cache[k], now)
                 /\ (Cardinality(StoredKeys(cache) \cup {key}) > cleanupThreshold
                       /\ Elapsed(cache[k], now)) => cache'[k] = NoEntry

\* C22: reading an entry whose TTL has elapsed returns null and deletes it; a
\* write past the size threshold removes the expired entries and only those.
C22_LazyEvictionAndSweep == [][ReadOrWriteOfCache]_vars

\* C23: evaluateReliability returns Ok or Err(AIModelError) and nothing else;
\* Err comes from a failure of the model only, and a URL that cannot be
\* parsed gives the empty domain, not an error.
C23_EvaluatorNeverThrows ==
  /\ evalResult.kind \in {"none", "Ok", "Err"}
  /\ evalResult.kind = "Err" =>
       (evalResult.error = "AIModelError" /\ evalResult.cause \in ModelFailures)
  /\ (evalResult.kind = "Ok" /\ evalResult.url # "" /\ Hostname(evalResult.url) = Throws) =>
       evalResult.domain = ""
  /\ \A t \in Tasks :
       (evals[t].st = "awaiting" /\ evals[t].url # "" /\ Hostname(evals[t].url) = Throws) =>
         evals[t].domain = ""

\* the model timed out on a source whose URL cannot be parsed: a typed error
C23_Witness ==
  /\ evalResult.kind = "Err"
  /\ evalResult.url = "not a url"
  /\ evalResult.cause = "timeout"
  /\ \E t \in Tasks : evals[t].st = "awaiting" /\ evals[t].url = "not a url"

\* C25: every assessment the evaluator returns has its score in [0, 1]
\* (0..10 in tenths), whatever the model replied.
C25_ScoreInUnitInterval == evalResult.kind = "Ok" => evalResult.score \in 0..10

SeqRange(q) == {q[i] : i \in 1..Len(q)}

\* the URLs of the results the level's searches returned
ConsideredUrls == UNION {SeqRange(SlotData(slots[i])) : i \in PlannedAt(levelsRun)}

MergeOfLevel ==
  (pc = "processing" /\ pc' = "merged") =>
    LET before == Len(context.learnings)
        added == SubSeq(context'.learnings, before + 1, Len(context'.learnings))
        weights == SubSeq(context'.learningReliabilities, before + 1,
                          Len(context'.learningReliabilities))
        seenBefore == Len(context.visitedUrls)
        newUrls == SubSeq(context'.visitedUrls, seenBefore + 1, Len(context'.visitedUrls))
    IN /\ before = Len(context.learningReliabilities)
       /\ SubSeq(context'.learnings, 1, before) = context.learnings
       /\ SubSeq(context'.learningReliabilities, 1, before) = context.learningReliabilities
       /\ SubSeq(context'.visitedUrls, 1, seenBefore) = context.visitedUrls
       \* one learning and one weight for each source marked use, and no other
       /\ \E v \in EvaluatorReplies :
            /\ SeqRange(added) = {u \in ConsideredUrls : v[u].use}
            /\ Len(added) = Cardinality({u \in ConsideredUrls : v[u].use})
            /\ Len(weights) = Len(added)
            /\ \A i \in 1..Len(added) : weights[i] = v[added[i]].score
       \* every considered URL is visited, accepted or not, once per level
       /\ SeqRange(newUrls) = ConsideredUrls
       /\ Len(newUrls) = Cardinality(ConsideredUrls)

WentLocalFirst == \E c \in Callers : searches[c].pc = "idle" /\ searches'[c].pc = "local"

\* the local attempt of the caller ends in this step without a result
LocalAttemptFailed(c) ==
  /\ searches[c].pc = "local"
  /\ \/ searches'[c].pc = "cloud"
     \/ (searches'[c].pc = "idle" /\ fcLast'.how = NoInstance)

C27_CloudFallback ==
  [][ /\ \A c \in Callers :
           (searches[c].pc = "local" /\ searches'[c].pc # "local" /\ cloudClient) =>
             \/ searches'[c] = [pc |-> "cloud", tried |-> <<"local", "cloud">>]
             \/ (searches'[c].pc = "idle" /\ fcLast' = [how |-> "local result", tried |-> <<"local">>])
      /\ \A c \in Callers :
           (searches[c].pc = "cloud" /\ searches'[c].pc = "idle") =>
             /\ fcLast'.how \in {"cloud result", "cloud error", CreditsExhausted}
             /\ fcLast'.tried = searches[c].tried
      /\ (fcLast' # fcLast /\ fcLast'.how = NoInstance) =>
           /\ ~cloudClient
           /\ \/ ~localClient
              \/ ~useLocal
              \/ fcLast'.tried = <<"local">>
    ]_vars

\* the local attempt failed and the same call got its result from the cloud
C27_Witness ==
  /\ fcLast = [how |-> "cloud result", tried |-> <<"local", "cloud">>]
  /\ ~useLocal

\* the connection is lost or the connection attempt fails in this step
ConnectionLostOrFailed ==
  /\ server \in {"connecting", "connected"}
  /\ server' \in {"waiting", "exited"}
  /\ exitCode' # 0

\* C28: the counter of reconnection attempts stays within 0..5; a connection
\* lost or failed with the counter at 5 exits the process, below 5 it counts
\* one more attempt and schedules it; a successful connection resets the
\* counter to 0; nothing happens after the exit.
C28_BoundedReconnects ==
  [][ /\ reconnectAttempts \in 0..maxReconnectAttempts
      /\ reconnectAttempts' \in 0..maxReconnectAttempts
      /\ ConnectionLostOrFailed =>
           IF reconnectAttempts = maxReconnectAttempts
           THEN server' = "exited" /\ exitCode' = 1 /\ reconnectAttempts' = reconnectAttempts
           ELSE server' = "waiting" /\ reconnectAttempts' = reconnectAttempts + 1
                /\ retryDelay' = retryBackoff * reconnectAttempts'
      /\ (server = "connecting" /\ server' = "connected") => reconnectAttempts' = 0
      /\ server = "exited" => server' = "exited"
      /\ connects' # connects => (server = "waiting" /\ connects' = connects + 1)
    ]_vars

\* after two connections that were lost, five attempts in a row failed and the
\* sixth failure exited the process
C28_Witness ==
  /\ server = "exited"
  /\ exitCode = 1
  /\ reconnectAttempts = maxReconnectAttempts
  /\ connects = 7

IsPrefix(p, q) == Len(p) <= Len(q) /\ SubSeq(q, 1, Len(p)) = p

\* what the merge of one level does to the context objects
FrameOfMerge ==
  LET n == Len(contexts)
  IN  /\ Len(contexts') = n + 1
      /\ contexts'[n] = context
      /\ context' = contexts'[n + 1]
      /\ IsPrefix(context.learnings, context'.learnings)
      /\ IsPrefix(context.learningReliabilities, context'.learningReliabilities)
      /\ IsPrefix(context.visitedUrls, context'.visitedUrls)

\* C30: a level never changes the context it received nor any context built
\* before: the merge builds one new context that starts with the learnings,
\* reliabilities and visited URLs of the received one, in their order, and no
\* other step of the research changes a context
C30_ContextNeverMutated ==
  [][ /\ \A k \in 1..Len(contexts) : k <= Len(contexts') /\ contexts'[k] = contexts[k]
      /\ mergesDone' = mergesDone + 1 => FrameOfMerge
      /\ mergesDone' = mergesDone => (context' = context /\ Len(contexts') <= Len(contexts) + 1)
      /\ (pc' = "done" /\ outcome' = "ok" /\ pc # "done") =>
            /\ result'.learnings = context.learnings
            /\ result'.visitedUrls = context.visitedUrls
    ]_vars

\* a second level added a learning to those of the first, and the research
\* returned
C30_Witness ==
  /\ pc = "done"
  /\ outcome = "ok"
  /\ Len(contexts) = 3
  /\ contexts[1] = EmptyContext
  /\ contexts[2].learnings # <<>>
  /\ Len(contexts[3].learnings) > Len(contexts[2].learnings)
  /\ Len(contexts[3].visitedUrls) > Len(contexts[2].visitedUrls)

\* what the tier read of this step found for the get of c: Null when nothing
Served(c) ==
  IF clients[c].op = "get" /\ clients[c].pc \in {"l1", "l2", "l3"} /\ clients'[c] # clients[c]
  THEN IF clients'[c].pc \in {"fill1", "fill2"} THEN clients'[c].value
       ELSE IF clients'[c].pc = "idle" THEN lastReturn'.ret
       ELSE Null
  ELSE Null

NoSetRunning == \A c \in Clients : clients[c].op # "set"

\* C31: once the ttl of the last completed set has elapsed, and no set is
\* running, no tier serves that set's value to a get
C31_NothingServedAfterTtl ==
  [][ \A c \in Clients :
        (lastSet # NoTierEntry /\ NoSetRunning /\ Served(c) = lastSet.value)
          => clock < lastSet.at + lastSet.ttl
    ]_vars

\* C32: with no set after it, a get that began after a delete of the key had
\* returned returns absent, and an exists that began after it returns false,
\* whatever reads were running while the delete ran
C32_AbsentAfterDelete ==
  [][ \A c \in afterDelete :
        (clients[c].pc # "idle" /\ clients'[c].pc = "idle") =>
          /\ clients[c].op = "get" => lastReturn'.ret = Null
          /\ clients[c].op = "exists" => lastReturn'.ret = "false"
    ]_vars

\* the entry tier i holds for key k
TierHolds(i, k) == CASE i = 1 -> l1[k] [] i = 2 -> l2[k] [] OTHER -> l3[k]

\* C33: when the cache has been called twice, both calls have returned and
\* the last to return was a set, the tiers that hold the key hold one value
C33_TiersAgreeAfterSets ==
  (tierOps = 2 /\ lastReturn.op = "set" /\ \A c \in Clients : clients[c].pc = "idle") =>
    \A k \in TierKeys : \A i, j \in ConfiguredTiers :
      (Live(TierHolds(i, k), clock) /\ Live(TierHolds(j, k), clock)) =>
        TierHolds(i, k).value = TierHolds(j, k).value

\* C34: an object returned from the cache to a request was generated by the
\* model for that very request (same system prompt, prompt and schema)
C34_HitOnlyForSameRequest ==
  \A a \in answers :
    a.hit => \E b \in answers : ~b.hit /\ b.req = a.req /\ b.object = a.object

PoolClients == 1..poolSize

HoldersOf(k) == {s \in Searchers : searchers[s].pc = "searching" /\ searchers[s].client = k}

TimesAvailable(k) == Cardinality({i \in 1..Len(available) : available[i] = k})

\* C35: every pooled client is either once in the available list or held by
\* exactly one search in flight, never both; activeConnections is the number
\* of clients held and is at most poolSize
C35_PoolPartition ==
  /\ \A k \in PoolClients :
        \/ TimesAvailable(k) = 1 /\ HoldersOf(k) = {}
        \/ TimesAvailable(k) = 0 /\ Cardinality(HoldersOf(k)) = 1
  /\ activeConnections = Cardinality({s \in Searchers : searchers[s].pc = "searching"})
  /\ activeConnections <= poolSize

\* a search has thrown, its client is in use again, and a search waits while
\* every client is held
C35_Witness ==
  /\ activeConnections = poolSize
  /\ available = <<>>
  /\ Len(waiting) = 1
  /\ \E s \in Searchers : searchers[s].last = "threw"

\* what one step does to the queue of waiting searches
QueueDiscipline ==
  /\ \A s \in Searchers :
        \* a search that finds no client available is queued, last in line
        /\ (searchers[s].pc = "idle" /\ searchers'[s].pc # "idle") =>
              IF Len(available) = 0
              THEN searchers'[s].pc = "waiting" /\ waiting' = Append(waiting, s)
              ELSE searchers'[s].pc = "searching" /\ waiting' = waiting
        \* a waiting search proceeds only as the first in line, with the client
        \* of the search that ends in this step
        /\ (searchers[s].pc = "waiting" /\ searchers'[s].pc # "waiting") =>
              /\ s = Head(waiting)
              /\ waiting' = Tail(waiting)
              /\ searchers'[s].pc = "searching"
              /\ \E t \in Searchers :
                    /\ searchers[t].pc = "searching"
                    /\ searchers'[t].pc = "idle"
                    /\ searchers'[s].client = searchers[t].client
  \* a released client goes to the available list only when nobody waits
  /\ Len(available') > Len(available) => waiting = <<>>
  \* the queue holds exactly the waiting searches
  /\ \A s \in Searchers :
        searchers'[s].pc = "waiting" <=> (\E i \in 1..Len(waiting') : waiting'[i] = s)

DepthDecreases ==
  /\ (levelsRun >= 1 /\ levelsRun' # levelsRun) =>
        /\ levelsRun' = levelsRun + 1
        /\ remainingDepth' = remainingDepth - 1
        /\ remainingDepth' >= 1
  /\ levelsRun' >= 1 => levelsRun' + remainingDepth' = params.depth + 1

\* C39: the remaining depth decreases by one from each level to the next and
\* stays positive, so at most `depth` levels run; and when every call
\* returns, conductResearch returns Ok or Err
C39_ResearchTerminates ==
  /\ [][DepthDecreases]_vars
  /\ <>(pc = "done" /\ outcome \in {"ok", "err"})

\* a research of depth 2 has run its two levels and returned
C39_Witness ==
  /\ pc = "done"
  /\ outcome = "ok"
  /\ params.depth = 2
  /\ levelsRun = 2
  /\ remainingDepth = 1

\* C40: an operation's metric keeps at most maxDurations samples, and its
\* count is the number of recordSuccess calls plus the number of recordError
\* calls
C40_SamplesBounded ==
  /\ Len(opMetric.durations) <= maxDurations
  /\ opMetric.count = successes + failures

\* C8: planning of the next level starts only after every search of the
\* current level has settled and the level's merge has completed; the searches
\* in flight always belong to the level being run.
C8_LevelsDoNotOverlap ==
  /\ \A i \in InFlightSlots : slots[i].lvl = levelsRun
  /\ pc \in {"planning", "processing", "merged"} => InFlightSlots = {}
  /\ pc = "planning" => mergesDone = levelsRun - 1

\* the second level is being planned after a level of two searches, one of
\* which failed and one of which succeeded
C8_Witness ==
  /\ pc = "planning"
  /\ levelsRun = 2
  /\ \E i, j \in PlannedAt(1) : slots[i].st = "err" /\ slots[j].st = "ok"

\* C9: the running total of consumed tokens never decreases, and under any
\* interleaving of concurrent charges it equals the sum of the amounts charged.
C9_NoLostCharge ==
  [][ /\ budget'.total >= budget.total
      /\ totalTokens' >= totalTokens
      /\ budget'.total = charged'
      /\ totalTokens' = generated' ]_vars

\* charges were made while another call was in flight, to the budget and to
\* the provider's statistics, every call has returned, and both totals hold
\* every amount charged
C9_Witness ==
  /\ overlapped
  /\ charged > 0
  /\ generated > charged
  /\ budget.total = charged
  /\ totalTokens = generated
  /\ \A t \in Tasks : tasks[t].st = "idle"

\* C10: exceeded is true exactly from the first charge after which
\* total >= cap, and stays true; without a cap it is false after every charge.
C10_ExceededFlag ==
  [][ /\ budget.exceeded => budget'.exceeded
      /\ budget'.exceeded <=> (budget'.cap # NoBudget /\ budget'.total >= budget'.cap) ]_vars

\* a charge has taken the total exactly to the cap
C10_Witness ==
  /\ budget.cap # NoBudget
  /\ budget.total = budget.cap
  /\ budget.exceeded
====
